---- MODULE Spec2Model ----
(***************************************************************************)
(* Model of the conversion engine of anthropic-azure-provider:             *)
(*   - the stream processor (stream.ts: processStream, processStreamEvent) *)
(*   - the prompt converter (converters.ts: convertPrompt and helpers)     *)
(*   - the stop-reason mapping (converters.ts: convertStopReason)          *)
(***************************************************************************)
EXTENDS Integers, Sequences, FiniteSets, TLC

(***************************************************************************)
(* Bounds of the model.                                                    *)
(***************************************************************************)
\* content-block indices range over 0..MaxIndex
MaxIndex == 1
\* vendor events delivered per stream: full alphabet / tool alphabet /
\* text alphabet / message-level alphabet
MaxEvents == 2
MaxToolEvents == 4
MaxTextEvents == 4
MaxMetaEvents == 3
\* message_delta events delivered beside a doGenerate call
MaxReasonEvents == 2
\* messages of a conversation
MaxMessages == 4
\* parts in the content of one message (SpecContent)
MaxParts == 2
\* messages of a conversation with system messages (SpecSystem)
MaxSystemMessages == 3
\* parts in the content of one tool message (SpecToolResult)
MaxResultParts == 2
\* models created through one provider (SpecProvider)
MaxModels == 2
\* vendor events delivered to a stream with a reader (SpecPace)
MaxPaceEvents == 4
\* block events delivered per stream, in any order (SpecBlock)
MaxBlockEvents == 3
\* block and message events delivered per stream (SpecFrame)
MaxFrameEvents == 3
\* vendor events delivered to each of two streams side by side (SpecPair)
MaxPairEvents == 2

Indices == 0..MaxIndex

(***************************************************************************)
(* JavaScript values.  An absent (undefined) field of an event is an       *)
(* absent field of the record; null is the value Null.                     *)
(***************************************************************************)
Null == "<null>"

Has(r, f) == f \in DOMAIN r

\* JavaScript truthiness of an optional string field: defined and non-empty
TruthyField(r, f) == Has(r, f) /\ r[f] # ""

(***************************************************************************)
(* converters.ts: convertStopReason                                        *)
(***************************************************************************)
convertStopReasonNoToolUse(reason) ==
  CASE reason \in {"end_turn", "stop_sequence"} -> "stop"
    [] reason = "max_tokens" -> "length"
    [] OTHER -> "other"

convertStopReason(reason) ==
  CASE reason \in {"end_turn", "stop_sequence"} -> "stop"
    [] reason = "max_tokens" -> "length"
    [] reason = "tool_use" -> "tool-calls"
    [] OTHER -> "other"

(***************************************************************************)
(* Outcome of a call: it returned a value or threw an error.               *)
(***************************************************************************)
Returned(v) == [threw |-> FALSE, value |-> v]
Threw(e) == [threw |-> TRUE, error |-> e]

\* the rest of a function after a call: a thrown error propagates, a
\* returned value goes on to Then
OnReturn(outcome, Then(_)) ==
  IF outcome.threw THEN outcome ELSE Then(outcome.value)

\* try { value } catch { fallback }
ValueOr(outcome, fallback) ==
  IF outcome.threw THEN fallback ELSE outcome.value

\* errors.ts: new AzureAnthropicError(code, message); no call site of the
\* converters passes the optional third argument (field)
AzureAnthropicError(code, message) ==
  [name |-> "AzureAnthropicError", code |-> code, message |-> message]

(***************************************************************************)
(* JavaScript values of unknown type (tool arguments, tool results):       *)
(*   [js |-> "string", v |-> s], [js |-> "number", v |-> n],               *)
(*   [js |-> "boolean", v |-> b], [js |-> "null"], [js |-> "undefined"],   *)
(*   [js |-> "object", members |-> << <<key, value>>, ... >>]              *)
(* JSON.stringify on them; strings are free of characters to escape.       *)
(***************************************************************************)
Undefined == "<undefined>"

JsString(s) == [js |-> "string", v |-> s]
JsNumber(n) == [js |-> "number", v |-> n]
JsObject(members) == [js |-> "object", members |-> members]
EmptyObject == JsObject(<< >>)

RECURSIVE JsonStringify(_)
RECURSIVE JsonMembers(_)
JsonMembers(members) ==
  IF members = << >>
    THEN ""
    ELSE LET m == Head(members)
             rest == JsonMembers(Tail(members))
             this == IF m[2].js = "undefined"
                       THEN ""
                       ELSE "\"" \o m[1] \o "\":" \o JsonStringify(m[2])
         IN IF this = "" THEN rest
            ELSE IF rest = "" THEN this
            ELSE this \o "," \o rest

\* JSON.stringify(value); JSON.stringify(undefined) is undefined
JsonStringify(value) ==
  CASE value.js = "string"    -> "\"" \o value.v \o "\""
    [] value.js = "number"    -> ToString(value.v)
    [] value.js = "boolean"   -> IF value.v THEN "true" ELSE "false"
    [] value.js = "null"      -> "null"
    [] value.js = "undefined" -> Undefined
    [] value.js = "object"    -> "{" \o JsonMembers(value.members) \o "}"

\* the JSON documents JSON.parse is asked about in this model
JsonDocuments ==
  << EmptyObject,
     JsObject(<< <<"location", JsString("NYC")>> >>),
     JsObject(<< <<"temperature", JsNumber(22)>>,
                 <<"condition", JsString("sunny")>> >>),
     JsString("sunny"),
     JsNumber(22) >>

\* JSON.parse(text): the document whose JSON text it is, or a SyntaxError
JsonParse(text) ==
  LET matches == {k \in DOMAIN JsonDocuments :
                    JsonStringify(JsonDocuments[k]) = text}
  IN IF matches # {}
       THEN Returned(JsonDocuments[CHOOSE k \in matches : TRUE])
       ELSE Threw("SyntaxError")

(***************************************************************************)
(* Strings that the code inspects character by character (file data) are   *)
(* sequences of one-character strings; binary data is a sequence of bytes. *)
(***************************************************************************)
StringData(chars) == [kind |-> "string", chars |-> chars]
BytesData(bytes) == [kind |-> "Uint8Array", bytes |-> bytes]

Base64Alphabet ==
  << "A", "B", "C", "D", "E", "F", "G", "H", "I", "J", "K", "L", "M",
     "N", "O", "P", "Q", "R", "S", "T", "U", "V", "W", "X", "Y", "Z",
     "a", "b", "c", "d", "e", "f", "g", "h", "i", "j", "k", "l", "m",
     "n", "o", "p", "q", "r", "s", "t", "u", "v", "w", "x", "y", "z",
     "0", "1", "2", "3", "4", "5", "6", "7", "8", "9", "+", "/" >>

B64(n) == Base64Alphabet[n + 1]

\* Buffer.from(data).toString("base64")
RECURSIVE Base64Encode(_)
Base64Encode(bytes) ==
  IF Len(bytes) = 0 THEN << >>
  ELSE IF Len(bytes) = 1 THEN
    << B64(bytes[1] \div 4), B64((bytes[1] % 4) * 16), "=", "=" >>
  ELSE IF Len(bytes) = 2 THEN
    << B64(bytes[1] \div 4),
       B64((bytes[1] % 4) * 16 + bytes[2] \div 16),
       B64((bytes[2] % 16) * 4), "=" >>
  ELSE
    << B64(bytes[1] \div 4),
       B64((bytes[1] % 4) * 16 + bytes[2] \div 16),
       B64((bytes[2] % 16) * 4 + bytes[3] \div 64),
       B64(bytes[3] % 64) >>
      \o Base64Encode(SubSeq(bytes, 4, Len(bytes)))

\* String.prototype.startsWith
StartsWith(chars, prefix) ==
  Len(chars) >= Len(prefix) /\ SubSeq(chars, 1, Len(prefix)) = prefix

\* String.prototype.indexOf for one character, 0-based, -1 if absent
IndexOf(chars, c) ==
  IF \E k \in DOMAIN chars : chars[k] = c
    THEN (CHOOSE k \in DOMAIN chars :
            chars[k] = c /\ \A j \in 1..(k - 1) : chars[j] # c) - 1
    ELSE -1

(***************************************************************************)
(* converters.ts: the prompt converter.  A content (of a unified or of a   *)
(* vendor message) is a bare string, [kind |-> "string", text |-> s], or   *)
(* an array, [kind |-> "array", items |-> << ... >>].                      *)
(***************************************************************************)
StringContent(s) == [kind |-> "string", text |-> s]
ArrayContent(items) == [kind |-> "array", items |-> items]
IsStringContent(content) == content.kind = "string"

SUPPORTED_IMAGE_TYPES == <<"image/jpeg", "image/png", "image/gif", "image/webp">>

validateImageMediaTypeAcceptsAll(mediaType) == Returned(mediaType)

validateImageMediaType(mediaType) ==
  IF \E k \in DOMAIN SUPPORTED_IMAGE_TYPES : SUPPORTED_IMAGE_TYPES[k] = mediaType
    THEN Returned(mediaType)
    ELSE Threw(AzureAnthropicError("conversion",
           "Unsupported image media type: " \o mediaType
             \o ". Supported: image/jpeg, image/png, image/gif, image/webp"))

extractBase64Data(data) ==
  IF data.kind = "Uint8Array"
    THEN Base64Encode(data.bytes)
    ELSE IF StartsWith(data.chars, <<"d", "a", "t", "a", ":">>)
              /\ IndexOf(data.chars, ",") # -1
           THEN SubSeq(data.chars, IndexOf(data.chars, ",") + 2,
                       Len(data.chars))
           ELSE data.chars

convertFilePart(part) ==
  OnReturn(validateImageMediaType(part.mediaType),
    LAMBDA mediaType :
      Returned([type |-> "image",
                source |-> [type |-> "base64",
                            media_type |-> mediaType,
                            data |-> extractBase64Data(part.data)]]))

\* part.args is a string, [js |-> "string", v |-> text], or a structured value
convertToolCallPart(part) ==
  LET input == IF part.args.js = "string"
                 THEN ValueOr(JsonParse(part.args.v), EmptyObject)
                 ELSE part.args
  IN [type |-> "tool_use", id |-> part.toolCallId, name |-> part.toolName,
      input |-> input]

convertContentPartFileForAnyRole(part, role) ==
  CASE part.type = "text" ->
         Returned([type |-> "text", text |-> part.text])
    [] part.type = "file" -> convertFilePart(part)
    [] part.type = "tool-call" ->
         IF role = "assistant"
           THEN Returned(convertToolCallPart(part))
           ELSE Threw(AzureAnthropicError("conversion",
                  "Unsupported user content part type: " \o part.type))
    [] OTHER ->
         Threw(AzureAnthropicError("conversion",
           "Unsupported " \o role \o " content part type: " \o part.type))

convertContentPart(part, role) ==
  CASE part.type = "text" ->
         Returned([type |-> "text", text |-> part.text])
    [] part.type = "file" ->
         IF role = "user"
           THEN convertFilePart(part)
           ELSE Threw(AzureAnthropicError("conversion",
                  "Unsupported assistant content part type: " \o part.type))
    [] part.type = "tool-call" ->
         IF role = "assistant"
           THEN Returned(convertToolCallPart(part))
           ELSE Threw(AzureAnthropicError("conversion",
                  "Unsupported user content part type: " \o part.type))
    [] OTHER ->
         Threw(AzureAnthropicError("conversion",
           "Unsupported " \o role \o " content part type: " \o part.type))

\* the loop of convertContentForRole: the first part that throws ends it
RECURSIVE convertParts(_, _)
convertParts(parts, role) ==
  IF parts = << >>
    THEN Returned(<< >>)
    ELSE OnReturn(convertContentPart(Head(parts), role),
           LAMBDA block :
             OnReturn(convertParts(Tail(parts), role),
               LAMBDA rest : Returned(<< block >> \o rest)))

convertContentForRoleKeepsBlocks(content, role) ==
  IF IsStringContent(content)
    THEN Returned(content)
    ELSE OnReturn(convertParts(content.items, role),
           LAMBDA blocks : Returned(ArrayContent(blocks)))

convertContentForRole(content, role) ==
  IF IsStringContent(content)
    THEN Returned(content)
    ELSE OnReturn(convertParts(content.items, role),
           LAMBDA blocks :
             IF Len(blocks) = 1 /\ blocks[1].type = "text"
               THEN Returned(StringContent(blocks[1].text))
               ELSE Returned(ArrayContent(blocks)))

\* Array.prototype.join("\n") over the text of the text parts
RECURSIVE JoinTexts(_)
JoinTexts(parts) ==
  IF parts = << >> THEN ""
  ELSE IF Len(parts) = 1 THEN parts[1].text
  ELSE parts[1].text \o "\n" \o JoinTexts(Tail(parts))

IsTextPart(part) == part.type = "text" /\ Has(part, "text")

extractSystemContentFirstText(message) ==
  IF IsStringContent(message.content)
    THEN message.content.text
    ELSE LET texts == SelectSeq(message.content.items, IsTextPart)
         IN IF texts = << >> THEN "" ELSE texts[1].text

extractSystemContent(message) ==
  IF IsStringContent(message.content)
    THEN message.content.text
    ELSE JoinTexts(SelectSeq(message.content.items, IsTextPart))

toolResultBlockEncodesStrings(part) ==
  [ type |-> "tool_result", tool_use_id |-> part.toolCallId ]
    @@ (IF ~Has(part, "result")
          THEN [x \in {} |-> 0]
          ELSE [content |-> JsonStringify(part.result)])
    @@ (IF Has(part, "isError")
          THEN [is_error |-> part.isError]
          ELSE [x \in {} |-> 0])

\* resultContent is undefined when part.result is: the field content of the
\* block is then undefined (absent from the record)
toolResultBlock(part) ==
  [ type |-> "tool_result", tool_use_id |-> part.toolCallId ]
    @@ (IF ~Has(part, "result")
          THEN [x \in {} |-> 0]
          ELSE [content |-> IF part.result.js = "string"
                              THEN part.result.v
                              ELSE JsonStringify(part.result)])
    @@ (IF Has(part, "isError")
          THEN [is_error |-> part.isError]
          ELSE [x \in {} |-> 0])

IsToolResultPart(part) ==
  part.type = "tool-result" /\ TruthyField(part, "toolCallId")

RECURSIVE toolResultBlocks(_)
toolResultBlocks(parts) ==
  IF parts = << >>
    THEN << >>
    ELSE (IF IsToolResultPart(Head(parts))
            THEN << toolResultBlock(Head(parts)) >>
            ELSE << >>)
           \o toolResultBlocks(Tail(parts))

convertToolResultMessage(message) ==
  IF IsStringContent(message.content)
    THEN [role |-> "user", content |-> message.content]
    ELSE [role |-> "user",
          content |-> ArrayContent(toolResultBlocks(message.content.items))]

normalizeContentDropsStrings(content) ==
  IF IsStringContent(content) THEN << >> ELSE content.items

normalizeContent(content) ==
  IF IsStringContent(content)
    THEN << [type |-> "text", text |-> content.text] >>
    ELSE content.items

\* the loop of mergeConsecutiveMessages, merged being the result so far
RECURSIVE mergeInto(_, _)
mergeInto(merged, messages) ==
  IF messages = << >>
    THEN merged
    ELSE LET message == Head(messages)
             n == Len(merged)
         IN IF n > 0 /\ merged[n].role = message.role
              THEN mergeInto(
                     [merged EXCEPT ![n] =
                        [role |-> message.role,
                         content |-> ArrayContent(
                           normalizeContent(merged[n].content)
                             \o normalizeContent(message.content))]],
                     Tail(messages))
              ELSE mergeInto(Append(merged, message), Tail(messages))

mergeOnlyFirstPair(messages) ==
  IF Len(messages) >= 2 /\ messages[1].role = messages[2].role
    THEN << [role |-> messages[1].role,
             content |-> ArrayContent(
               normalizeContent(messages[1].content)
                 \o normalizeContent(messages[2].content))] >>
           \o SubSeq(messages, 3, Len(messages))
    ELSE messages

mergeConsecutiveMessages(messages) == mergeInto(<< >>, messages)

\* the loop of convertPrompt over the messages left, acc being
\* [messages |-> ...] with the field system once a system message was seen
RECURSIVE convertLoop(_, _)
convertLoop(prompt, acc) ==
  IF prompt = << >>
    THEN Returned(acc)
    ELSE LET message == Head(prompt)
             rest == Tail(prompt)
         IN CASE message.role = "system" ->
                   convertLoop(rest,
                     [messages |-> acc.messages,
                      system |-> extractSystemContent(message)])
              [] message.role \in {"user", "assistant"} ->
                   OnReturn(
                     convertContentForRole(message.content, message.role),
                     LAMBDA content :
                       convertLoop(rest,
                         [acc EXCEPT !.messages =
                            Append(@, [role |-> message.role,
                                       content |-> content])]))
              [] message.role = "tool" ->
                   convertLoop(rest,
                     [acc EXCEPT !.messages =
                        Append(@, convertToolResultMessage(message))])
              [] OTHER -> convertLoop(rest, acc)

\* the vendor messages convertPrompt has pushed when its loop ends
\* (the argument of mergeConsecutiveMessages), or the error thrown
convertMessages(prompt) == convertLoop(prompt, [messages |-> << >>])

convertPrompt(prompt) ==
  OnReturn(convertMessages(prompt),
    LAMBDA looped :
      Returned([looped EXCEPT !.messages = mergeConsecutiveMessages(@)]))

(***************************************************************************)
(* converters.ts: response content, tools and tool choice                  *)
(***************************************************************************)
convertContentBlock(block) ==
  IF block.type = "text"
    THEN [type |-> "text", text |-> block.text]
    ELSE [type |-> "tool-call", toolCallId |-> block.id,
          toolName |-> block.name, args |-> JsonStringify(block.input)]

convertContent(content) ==
  [k \in DOMAIN content |-> convertContentBlock(content[k])]

\* an absent optional field of an object literal
NoFields == [x \in {} |-> 0]

convertTool(tool) ==
  [name |-> tool.name, input_schema |-> tool.inputSchema]
    @@ (IF Has(tool, "description")
          THEN [description |-> tool.description]
          ELSE NoFields)

convertTools(tools) == [k \in DOMAIN tools |-> convertTool(tools[k])]

convertToolChoiceKeepsNone(choice) ==
  CASE choice.type = "auto"     -> [type |-> "auto"]
    [] choice.type = "none"     -> [type |-> "none"]
    [] choice.type = "required" -> [type |-> "any"]
    [] choice.type = "tool"     -> [type |-> "tool", name |-> choice.toolName]
    [] OTHER                    -> [type |-> "auto"]

convertToolChoice(choice) ==
  CASE choice.type = "auto"     -> [type |-> "auto"]
    [] choice.type = "none"     -> [type |-> "auto"]
    [] choice.type = "required" -> [type |-> "any"]
    [] choice.type = "tool"     -> [type |-> "tool", name |-> choice.toolName]
    [] OTHER                    -> [type |-> "auto"]

(***************************************************************************)
(* model.ts: AzureAnthropicLanguageModel                                   *)
(***************************************************************************)
DEFAULT_MAX_TOKENS == 4096

IsFunctionTool(tool) == tool.type = "function"

maxTokensModelOptionsFirst(modelOptions, options) ==
  IF Has(modelOptions, "maxOutputTokens")
    THEN modelOptions.maxOutputTokens
    ELSE IF Has(options, "maxOutputTokens")
           THEN options.maxOutputTokens
           ELSE DEFAULT_MAX_TOKENS

\* options.maxOutputTokens ?? this.options.maxOutputTokens ?? 4096
maxTokens(modelOptions, options) ==
  IF Has(options, "maxOutputTokens")
    THEN options.maxOutputTokens
    ELSE IF Has(modelOptions, "maxOutputTokens")
           THEN modelOptions.maxOutputTokens
           ELSE DEFAULT_MAX_TOKENS

\* buildRequestBody(options, isStreaming) of a model with the given id and
\* model-level options; it throws what convertPrompt throws
buildRequestBody(modelId, modelOptions, options, isStreaming) ==
  LET functionTools == IF Has(options, "tools")
                         THEN SelectSeq(options.tools, IsFunctionTool)
                         ELSE << >>
      Opt(present, field) == IF present THEN field ELSE NoFields
  IN OnReturn(convertPrompt(options.prompt),
       LAMBDA convertedPrompt :
            Returned(
              [model |-> modelId,
               max_tokens |-> maxTokens(modelOptions, options),
               messages |-> convertedPrompt.messages]
                @@ Opt(isStreaming, [stream |-> TRUE])
                @@ Opt(TruthyField(convertedPrompt, "system"),
                       [system |-> convertedPrompt.system])
                @@ Opt(Has(options, "temperature"),
                       [temperature |-> options.temperature])
                @@ Opt(Has(options, "topP"), [top_p |-> options.topP])
                @@ Opt(Has(options, "topK"), [top_k |-> options.topK])
                @@ Opt(Has(options, "stopSequences"),
                       [stop_sequences |-> options.stopSequences])
                @@ Opt(Len(functionTools) > 0,
                       [tools |-> convertTools(functionTools)])
                @@ Opt(Has(options, "toolChoice"),
                       [tool_choice |-> convertToolChoice(options.toolChoice)])))

generatedPart(part) ==
  IF part.type = "tool-call"
    THEN [type |-> "tool-call", toolCallId |-> part.toolCallId,
          toolName |-> part.toolName, input |-> part.args]
    ELSE part

\* the LanguageModelV3GenerateResult doGenerate builds from the response
\* (without response.timestamp, the time of the call)
generateResult(requestBody, response) ==
  LET content == convertContent(response.content)
  IN [ content |-> [k \in DOMAIN content |-> generatedPart(content[k])],
       finishReason |->
         [unified |-> convertStopReason(response.stop_reason)]
           @@ (IF response.stop_reason # Null
                 THEN [raw |-> response.stop_reason]
                 ELSE NoFields),
       usage |->
         [inputTokens |->
            [total |-> response.usage.input_tokens]
              @@ (IF Has(response.usage, "cache_read_input_tokens")
                    THEN [cacheRead |-> response.usage.cache_read_input_tokens]
                    ELSE NoFields),
          outputTokens |-> [total |-> response.usage.output_tokens,
                            text |-> response.usage.output_tokens]],
       warnings |-> << >>,
       request |-> [body |-> requestBody],
       response |-> [id |-> response.id, modelId |-> response.model,
                     body |-> response] ]

(***************************************************************************)
(* stream.ts: StreamState and processStreamEvent                           *)
(***************************************************************************)
InitialStreamState ==
  [ toolCalls       |-> << >>,   \* Map<number, {id, name, argsText}>
    textBlockIds    |-> {},      \* Set<number>
    inputTokens     |-> 0,
    outputTokens    |-> 0,
    finishReasonRaw |-> "other" ]

TextId(index) == "text-" \o ToString(index)

\* Map.set(k, v)
MapSet(m, k, v) == [j \in (DOMAIN m) \cup {k} |-> IF j = k THEN v ELSE m[j]]
\* Map.delete(k)
MapDelete(m, k) == [j \in (DOMAIN m) \ {k} |-> m[j]]

\* case "message_start"
OnMessageStart(event, s) ==
  [ state |-> IF Has(event, "input_tokens")
                THEN [s EXCEPT !.inputTokens = event.input_tokens]
                ELSE s,
    parts |-> << >> ]

OnContentBlockStartOpensWithoutId(event, s) ==
  LET block == event.content_block
      isText == block.type = "text"
      isTool == block.type = "tool_use" /\ TruthyField(block, "name")
      s1 == IF isText
              THEN [s EXCEPT !.textBlockIds = @ \cup {event.index}]
              ELSE s
      s2 == IF isTool
              THEN [s1 EXCEPT !.toolCalls =
                      MapSet(@, event.index,
                             [id |-> IF Has(block, "id") THEN block.id ELSE "",
                              name |-> block.name,
                              argsText |-> ""])]
              ELSE s1
  IN [ state |-> s2,
       parts |-> IF isText
                   THEN << [type |-> "text-start", id |-> TextId(event.index)] >>
                   ELSE << >> ]

\* case "content_block_start"
OnContentBlockStart(event, s) ==
  LET block == event.content_block
      isText == block.type = "text"
      isTool == block.type = "tool_use" /\ TruthyField(block, "id")
                  /\ TruthyField(block, "name")
      s1 == IF isText
              THEN [s EXCEPT !.textBlockIds = @ \cup {event.index}]
              ELSE s
      s2 == IF isTool
              THEN [s1 EXCEPT !.toolCalls =
                      MapSet(@, event.index,
                             [id |-> block.id, name |-> block.name,
                              argsText |-> ""])]
              ELSE s1
  IN [ state |-> s2,
       parts |-> IF isText
                   THEN << [type |-> "text-start", id |-> TextId(event.index)] >>
                   ELSE << >> ]

OnContentBlockDeltaOpensAccumulator(event, s) ==
  LET delta == event.delta
      index == event.index
      id == TextId(index)
      isText == delta.type = "text_delta" /\ Has(delta, "text")
      isJson == delta.type = "input_json_delta"
                  /\ TruthyField(delta, "partial_json")
      needStart == isText /\ index \notin s.textBlockIds
      s1 == IF needStart
              THEN [s EXCEPT !.textBlockIds = @ \cup {index}]
              ELSE s
      s2 == IF isJson
              THEN IF index \in DOMAIN s1.toolCalls
                     THEN [s1 EXCEPT !.toolCalls[index].argsText =
                             @ \o delta.partial_json]
                     ELSE [s1 EXCEPT !.toolCalls =
                             MapSet(@, index,
                                    [id |-> "", name |-> "",
                                     argsText |-> delta.partial_json])]
              ELSE s1
      startPart == IF needStart
                     THEN << [type |-> "text-start", id |-> id] >>
                     ELSE << >>
      deltaPart == IF isText
                     THEN << [type |-> "text-delta", id |-> id,
                              delta |-> delta.text] >>
                     ELSE << >>
  IN [ state |-> s2, parts |-> startPart \o deltaPart ]

OnContentBlockDeltaForgetsOpen(event, s) ==
  LET delta == event.delta
      index == event.index
      id == TextId(index)
      isText == delta.type = "text_delta" /\ Has(delta, "text")
      isJson == delta.type = "input_json_delta"
                  /\ TruthyField(delta, "partial_json")
      needStart == isText /\ index \notin s.textBlockIds
      s2 == IF isJson /\ index \in DOMAIN s.toolCalls
              THEN [s EXCEPT !.toolCalls[index].argsText =
                      @ \o delta.partial_json]
              ELSE s
      startPart == IF needStart
                     THEN << [type |-> "text-start", id |-> id] >>
                     ELSE << >>
      deltaPart == IF isText
                     THEN << [type |-> "text-delta", id |-> id,
                              delta |-> delta.text] >>
                     ELSE << >>
  IN [ state |-> s2, parts |-> startPart \o deltaPart ]

\* case "content_block_delta"
OnContentBlockDelta(event, s) ==
  LET delta == event.delta
      index == event.index
      id == TextId(index)
      isText == delta.type = "text_delta" /\ Has(delta, "text")
      isJson == delta.type = "input_json_delta"
                  /\ TruthyField(delta, "partial_json")
      needStart == isText /\ index \notin s.textBlockIds
      s1 == IF needStart
              THEN [s EXCEPT !.textBlockIds = @ \cup {index}]
              ELSE s
      s2 == IF isJson /\ index \in DOMAIN s1.toolCalls
              THEN [s1 EXCEPT !.toolCalls[index].argsText =
                      @ \o delta.partial_json]
              ELSE s1
      startPart == IF needStart
                     THEN << [type |-> "text-start", id |-> id] >>
                     ELSE << >>
      deltaPart == IF isText
                     THEN << [type |-> "text-delta", id |-> id,
                              delta |-> delta.text] >>
                     ELSE << >>
  IN [ state |-> s2, parts |-> startPart \o deltaPart ]

OnContentBlockStopClearsAccumulators(event, s) ==
  LET index == event.index
      endPart == IF index \in s.textBlockIds
                   THEN << [type |-> "text-end", id |-> TextId(index)] >>
                   ELSE << >>
      hasTool == index \in DOMAIN s.toolCalls
      toolCall == s.toolCalls[index]
      toolPart == IF hasTool
                    THEN << [type |-> "tool-call",
                             toolCallId |-> toolCall.id,
                             toolName |-> toolCall.name,
                             input |-> IF toolCall.argsText # ""
                                         THEN toolCall.argsText
                                         ELSE "{}"] >>
                    ELSE << >>
  IN [ state |-> IF hasTool
                   THEN [s EXCEPT !.toolCalls = << >>]
                   ELSE s,
       parts |-> endPart \o toolPart ]

OnContentBlockStopAlwaysEndsText(event, s) ==
  LET index == event.index
      endPart == << [type |-> "text-end", id |-> TextId(index)] >>
      hasTool == index \in DOMAIN s.toolCalls
      toolCall == s.toolCalls[index]
      toolPart == IF hasTool
                    THEN << [type |-> "tool-call",
                             toolCallId |-> toolCall.id,
                             toolName |-> toolCall.name,
                             input |-> IF toolCall.argsText # ""
                                         THEN toolCall.argsText
                                         ELSE "{}"] >>
                    ELSE << >>
  IN [ state |-> IF hasTool
                   THEN [s EXCEPT !.toolCalls = MapDelete(@, index)]
                   ELSE s,
       parts |-> endPart \o toolPart ]

OnContentBlockStopDropsToolCall(event, s) ==
  LET index == event.index
      endPart == IF index \in s.textBlockIds
                   THEN << [type |-> "text-end", id |-> TextId(index)] >>
                   ELSE << >>
      hasTool == index \in DOMAIN s.toolCalls
  IN [ state |-> IF hasTool
                   THEN [s EXCEPT !.toolCalls = MapDelete(@, index)]
                   ELSE s,
       parts |-> endPart ]

OnContentBlockStopKeepsAccumulator(event, s) ==
  LET index == event.index
      endPart == IF index \in s.textBlockIds
                   THEN << [type |-> "text-end", id |-> TextId(index)] >>
                   ELSE << >>
      hasTool == index \in DOMAIN s.toolCalls
      toolCall == s.toolCalls[index]
      toolPart == IF hasTool
                    THEN << [type |-> "tool-call",
                             toolCallId |-> toolCall.id,
                             toolName |-> toolCall.name,
                             input |-> IF toolCall.argsText # ""
                                         THEN toolCall.argsText
                                         ELSE "{}"] >>
                    ELSE << >>
  IN [ state |-> s, parts |-> endPart \o toolPart ]

\* case "content_block_stop"
OnContentBlockStop(event, s) ==
  LET index == event.index
      endPart == IF index \in s.textBlockIds
                   THEN << [type |-> "text-end", id |-> TextId(index)] >>
                   ELSE << >>
      hasTool == index \in DOMAIN s.toolCalls
      toolCall == s.toolCalls[index]
      toolPart == IF hasTool
                    THEN << [type |-> "tool-call",
                             toolCallId |-> toolCall.id,
                             toolName |-> toolCall.name,
                             input |-> IF toolCall.argsText # ""
                                         THEN toolCall.argsText
                                         ELSE "{}"] >>
                    ELSE << >>
  IN [ state |-> IF hasTool
                   THEN [s EXCEPT !.toolCalls = MapDelete(@, index)]
                   ELSE s,
       parts |-> endPart \o toolPart ]

OnMessageDeltaStoresNull(event, s) ==
  LET s1 == IF Has(event, "output_tokens")
              THEN [s EXCEPT !.outputTokens = event.output_tokens]
              ELSE s
      s2 == IF Has(event, "stop_reason")
              THEN [s1 EXCEPT !.finishReasonRaw = event.stop_reason]
              ELSE s1
  IN [ state |-> s2, parts |-> << >> ]

OnMessageDeltaSums(event, s) ==
  LET s1 == IF Has(event, "output_tokens")
              THEN [s EXCEPT !.outputTokens = @ + event.output_tokens]
              ELSE s
      s2 == IF Has(event, "stop_reason") /\ event.stop_reason # Null
              THEN [s1 EXCEPT !.finishReasonRaw = event.stop_reason]
              ELSE s1
  IN [ state |-> s2, parts |-> << >> ]

\* case "message_delta"
OnMessageDelta(event, s) ==
  LET s1 == IF Has(event, "output_tokens")
              THEN [s EXCEPT !.outputTokens = event.output_tokens]
              ELSE s
      s2 == IF Has(event, "stop_reason") /\ event.stop_reason # Null
              THEN [s1 EXCEPT !.finishReasonRaw = event.stop_reason]
              ELSE s1
  IN [ state |-> s2, parts |-> << >> ]

processStreamEvent(event, s) ==
  CASE event.type = "message_start"       -> OnMessageStart(event, s)
    [] event.type = "content_block_start" -> OnContentBlockStart(event, s)
    [] event.type = "content_block_delta" -> OnContentBlockDelta(event, s)
    [] event.type = "content_block_stop"  -> OnContentBlockStop(event, s)
    [] event.type = "message_delta"       -> OnMessageDelta(event, s)
    [] OTHER -> [state |-> s, parts |-> << >>]

(***************************************************************************)
(* Vendor streaming events (types.ts: IAnthropicStreamEvent), drawn from   *)
(* small sets.                                                             *)
(***************************************************************************)
InputTokenValues == {10, 25}
OutputTokenValues == {7, 20}
StopReasons == {"end_turn", "stop_sequence", "max_tokens", "tool_use",
                "pause_turn"}
TextFragments == {"Hello", " world", ""}
JsonFragments == {"{\"loc", "ation\":\"NYC\"}", ""}
ToolBlocks ==
  { [type |-> "tool_use", id |-> "call_123", name |-> "get_weather"],
    [type |-> "tool_use", id |-> "call_456", name |-> "get_time"],
    [type |-> "tool_use", name |-> "get_weather"],
    [type |-> "tool_use", id |-> "call_123"],
    [type |-> "tool_use", id |-> "", name |-> "get_time"] }

MessageStartEvents ==
  {[type |-> "message_start"]}
    \cup {[type |-> "message_start", input_tokens |-> n] : n \in InputTokenValues}

ContentBlockStartEvents(blocks) ==
  {[type |-> "content_block_start", index |-> i, content_block |-> b] :
      i \in Indices, b \in blocks}

TextDeltaEvents(frags) ==
  {[type |-> "content_block_delta", index |-> i,
    delta |-> [type |-> "text_delta", text |-> t]] : i \in Indices, t \in frags}

\* a delta tagged text_delta whose optional text field is absent
TextlessDeltaEvents ==
  {[type |-> "content_block_delta", index |-> i,
    delta |-> [type |-> "text_delta"]] : i \in Indices}

JsonDeltaEvents(frags) ==
  {[type |-> "content_block_delta", index |-> i,
    delta |-> [type |-> "input_json_delta", partial_json |-> t]] :
      i \in Indices, t \in frags}

ContentBlockStopEvents ==
  {[type |-> "content_block_stop", index |-> i] : i \in Indices}

\* message_delta events: stop_reason absent, null or one of reasons;
\* output_tokens absent or one of tokens
MessageDeltaEventsOver(reasons, tokens) ==
  LET rs == {[x \in {} |-> 0]}
              \cup {[stop_reason |-> r] : r \in reasons \cup {Null}}
      us == {[x \in {} |-> 0]} \cup {[output_tokens |-> n] : n \in tokens}
  IN {[type |-> "message_delta"] @@ r @@ u : r \in rs, u \in us}

MessageDeltaEvents == MessageDeltaEventsOver(StopReasons, OutputTokenValues)

\* every event shape
Events ==
  MessageStartEvents
    \cup ContentBlockStartEvents({[type |-> "text"]} \cup ToolBlocks)
    \cup TextDeltaEvents(TextFragments)
    \cup TextlessDeltaEvents
    \cup JsonDeltaEvents(JsonFragments)
    \cup ContentBlockStopEvents
    \cup MessageDeltaEvents

\* values the event source may raise
Faults == {"Stream error", "aborted"}

(***************************************************************************)
(* stream.ts: processStream.  The ReadableStream's start callback drains   *)
(* the vendor event source and enqueues the unified events on the          *)
(* controller; out is everything enqueued so far.                          *)
(***************************************************************************)
VARIABLES
  state,            \* StreamState
  hasEmittedStart,  \* let hasEmittedStart
  out,              \* events enqueued on the controller, in order
  closed,           \* controller.close() has run
  delivered,        \* vendor events the source has yielded so far
  emitted,          \* emitted[k]: the parts processStreamEvent returned for delivered[k]
  source,           \* "open", "completed" or "raised"
  fault,            \* what the source raised, when it raised
  consumed,         \* how many events of out the stream's reader has read
  prompt,           \* the unified conversation given to convertPrompt
  converted,        \* outcome of convertPrompt(prompt), once it was called
  call,             \* doGenerate: "idle", "awaiting" (the transport) or "done"
  request,          \* doGenerate: the request body sent to the transport
  response,         \* doGenerate: the vendor response received
  generated,        \* doGenerate / doStream: its outcome
  method,           \* which of doGenerate and doStream was called
  callOptions,      \* the model-level options and the options of that call
  providerOptions,  \* the options createAzureAnthropic was called with
  provider,         \* outcome of createAzureAnthropic, once it was called
  clients,          \* the AnthropicFoundry clients constructed, in order
  models,           \* the models created through the provider, in order
  streams           \* two calls of processStream side by side: what each holds

streamVars ==
  <<state, hasEmittedStart, out, closed, delivered, emitted, source, fault,
    consumed>>
promptVars == <<prompt, converted>>
generateVars == <<call, request, response, generated, method, callOptions>>
providerVars == <<providerOptions, provider, clients, models>>

pairVars == <<streams>>

vars == <<streamVars, promptVars, generateVars, providerVars, pairVars>>

NoFault == "<none>"

StreamInit ==
  /\ state = InitialStreamState
  /\ hasEmittedStart = FALSE
  /\ out = << >>
  /\ closed = FALSE
  /\ delivered = << >>
  /\ emitted = << >>
  /\ source = "open"
  /\ fault = NoFault
  /\ consumed = 0

StreamStartPart == [type |-> "stream-start", warnings |-> << >>]

FinishPart(s) ==
  [ type |-> "finish",
    finishReason |-> [unified |-> convertStopReason(s.finishReasonRaw),
                      raw |-> s.finishReasonRaw],
    usage |-> [inputTokens  |-> [total |-> s.inputTokens],
               outputTokens |-> [total |-> s.outputTokens,
                                 text |-> s.outputTokens]] ]

ErrorPart(error) == [type |-> "error", error |-> error]

LoopBodyPartsBackwards(event) ==
  LET r == processStreamEvent(event, state)
      start == IF hasEmittedStart THEN << >> ELSE << StreamStartPart >>
      n == Len(r.parts)
  IN /\ out' = out \o start \o [k \in 1..n |-> r.parts[n + 1 - k]]
     /\ emitted' = Append(emitted, r.parts)
     /\ hasEmittedStart' = TRUE
     /\ state' = r.state

\* one iteration of `for await (const event of anthropicStream)`
LoopBodyStartAfterParts(event) ==
  LET r == processStreamEvent(event, state)
      start == IF hasEmittedStart THEN << >> ELSE << StreamStartPart >>
  IN /\ out' = out \o r.parts \o start
     /\ emitted' = Append(emitted, r.parts)
     /\ hasEmittedStart' = TRUE
     /\ state' = r.state

LoopBody(event) ==
  LET r == processStreamEvent(event, state)
      start == IF hasEmittedStart THEN << >> ELSE << StreamStartPart >>
  IN /\ out' = out \o start \o r.parts
     /\ emitted' = Append(emitted, r.parts)
     /\ hasEmittedStart' = TRUE
     /\ state' = r.state

\* the source yields one more event
Deliver(event, limit) ==
  /\ source = "open"
  /\ Len(delivered) < limit
  /\ delivered' = Append(delivered, event)
  /\ LoopBody(event)
  /\ UNCHANGED <<closed, source, fault, consumed>>
  /\ UNCHANGED <<promptVars, generateVars, providerVars, pairVars>>

\* the source completes: the loop ends, finish is enqueued, finally closes
CompleteFinishOnlyAfterStart ==
  /\ source = "open"
  /\ source' = "completed"
  /\ out' = IF hasEmittedStart THEN Append(out, FinishPart(state)) ELSE out
  /\ closed' = TRUE
  /\ UNCHANGED <<state, hasEmittedStart, delivered, emitted, fault, consumed>>
  /\ UNCHANGED <<promptVars, generateVars, providerVars, pairVars>>

Complete ==
  /\ source = "open"
  /\ source' = "completed"
  /\ out' = Append(out, FinishPart(state))
  /\ closed' = TRUE
  /\ UNCHANGED <<state, hasEmittedStart, delivered, emitted, fault, consumed>>
  /\ UNCHANGED <<promptVars, generateVars, providerVars, pairVars>>

\* the source raises: catch enqueues the error part, finally closes
RaiseThenFinish(error) ==
  /\ source = "open"
  /\ source' = "raised"
  /\ fault' = error
  /\ out' = out \o << ErrorPart(error), FinishPart(state) >>
  /\ closed' = TRUE
  /\ UNCHANGED <<state, hasEmittedStart, delivered, emitted, consumed>>
  /\ UNCHANGED <<promptVars, generateVars, providerVars, pairVars>>

Raise(error) ==
  /\ source = "open"
  /\ source' = "raised"
  /\ fault' = error
  /\ out' = Append(out, ErrorPart(error))
  /\ closed' = TRUE
  /\ UNCHANGED <<state, hasEmittedStart, delivered, emitted, consumed>>
  /\ UNCHANGED <<promptVars, generateVars, providerVars, pairVars>>

NotCalled == [called |-> FALSE]

\* convertPrompt was not called
PromptIdle == prompt = << >> /\ converted = NotCalled

\* neither doGenerate nor doStream was called
GenerateIdle ==
  /\ call = "idle"
  /\ request = NotCalled
  /\ response = NotCalled
  /\ generated = NotCalled
  /\ method = "none"
  /\ callOptions = NotCalled

\* createAzureAnthropic was not called
ProviderIdle ==
  /\ providerOptions = NotCalled
  /\ provider = NotCalled
  /\ clients = << >>
  /\ models = << >>

\* what one call of processStream holds: its own StreamState and
\* hasEmittedStart, made by the call, and its controller
NewStream ==
  [ state |-> InitialStreamState,
    hasEmittedStart |-> FALSE,
    out |-> << >>,
    closed |-> FALSE,
    delivered |-> << >>,
    source |-> "open" ]

StreamIds == {"first", "second"}

\* processStream was called twice, no source has yielded yet
PairIdle == streams = [id \in StreamIds |-> NewStream]

Init ==
  StreamInit /\ PromptIdle /\ GenerateIdle /\ ProviderIdle /\ PairIdle

(***************************************************************************)
(* Spec: a stream over the full event alphabet.                            *)
(***************************************************************************)
Next ==
  \/ \E event \in Events : Deliver(event, MaxEvents)
  \/ Complete
  \/ \E error \in Faults : Raise(error)

Spec == Init /\ [][Next]_vars

(***************************************************************************)
(* Helpers of the properties.                                              *)
(***************************************************************************)
Count(seq, type) == Cardinality({k \in DOMAIN seq : seq[k].type = type})

Last(seq) == seq[Len(seq)]

\* the unified events a run with no fault enqueues for the events evs,
\* before its terminal event
RECURSIVE RunFrom(_, _, _)
RunFrom(evs, s, started) ==
  IF evs = << >>
    THEN << >>
    ELSE LET r == processStreamEvent(Head(evs), s)
         IN (IF started THEN << >> ELSE << StreamStartPart >>)
              \o r.parts \o RunFrom(Tail(evs), r.state, TRUE)

FaultFreeOutput(evs) == RunFrom(evs, InitialStreamState, FALSE)

(***************************************************************************)
(* C1: whenever the source completes normally the output holds exactly one *)
(* finish event, it is the last event and the output is closed; for a      *)
(* source with zero events the whole output is the single finish event.    *)
(***************************************************************************)
C1_FinishOnCompletion ==
  source = "completed" =>
    /\ closed
    /\ Count(out, "finish") = 1
    /\ Last(out).type = "finish"
    /\ Count(out, "error") = 0
    /\ (delivered = << >> => Len(out) = 1 /\ Count(out, "stream-start") = 0)

C1_Witness ==
  /\ source = "completed"
  /\ Len(delivered) = 2
  /\ Len(out) >= 4
  /\ Last(out).type = "finish"

(***************************************************************************)
(* C2: if the source raises after n >= 0 delivered events the output is    *)
(* what a fault-free run enqueues for those n events followed by exactly   *)
(* one error event carrying the fault; there is no finish event and the    *)
(* output is closed.                                                       *)
(***************************************************************************)
C2_ErrorOnFault ==
  source = "raised" =>
    /\ closed
    /\ out = FaultFreeOutput(delivered) \o << ErrorPart(fault) >>
    /\ fault \in Faults
    /\ Count(out, "error") = 1
    /\ Count(out, "finish") = 0

C2_Witness ==
  /\ source = "raised"
  /\ Len(delivered) = 2
  /\ Len(out) >= 4
  /\ Last(out) = ErrorPart("Stream error")

(***************************************************************************)
(* C3: stream-start is enqueued exactly once if at least one vendor event  *)
(* was delivered, and is then the first unified event (so it precedes      *)
(* every text-start, text-delta, text-end, tool-call and finish event); it *)
(* is never enqueued when no vendor event was delivered.                   *)
(***************************************************************************)
C3_StreamStartOnceFirst ==
  /\ delivered = << >> => Count(out, "stream-start") = 0
  /\ delivered # << >> =>
       /\ Count(out, "stream-start") = 1
       /\ out[1] = StreamStartPart

C3_Witness ==
  /\ Len(delivered) = 2
  /\ source = "completed"
  /\ out[1] = StreamStartPart
  /\ \E k \in 2..Len(out) : out[k].type = "text-delta"
  /\ \E k \in 2..Len(out) : out[k].type = "text-end"

(***************************************************************************)
(* SpecTool: the loop of processStream over tool_use block events (starts  *)
(* that open an accumulator, argument fragments, stops) of all indices.    *)
(***************************************************************************)
OpeningToolBlocks ==
  { [type |-> "tool_use", id |-> "call_123", name |-> "get_weather"],
    [type |-> "tool_use", id |-> "call_456", name |-> "get_time"] }

ToolEvents ==
  ContentBlockStartEvents(OpeningToolBlocks)
    \cup JsonDeltaEvents(JsonFragments \ {""})
    \cup ContentBlockStopEvents

NextTool == \E event \in ToolEvents : Deliver(event, MaxToolEvents)

SpecTool == Init /\ [][NextTool]_vars

\* the vendor event opens a tool-call accumulator at index i
OpensTool(ev, i) ==
  /\ ev.type = "content_block_start"
  /\ ev.index = i
  /\ ev.content_block.type = "tool_use"
  /\ TruthyField(ev.content_block, "id")
  /\ TruthyField(ev.content_block, "name")

IsStop(ev, i) == ev.type = "content_block_stop" /\ ev.index = i

IsJsonFragment(ev, i) ==
  /\ ev.type = "content_block_delta"
  /\ ev.index = i
  /\ ev.delta.type = "input_json_delta"
  /\ Has(ev.delta, "partial_json")

\* the fragments for index i among evs[lo+1 .. hi-1], concatenated in order
RECURSIVE FragmentsBetween(_, _, _, _)
FragmentsBetween(evs, lo, hi, i) ==
  IF lo + 1 >= hi
    THEN ""
    ELSE (IF IsJsonFragment(evs[lo + 1], i)
            THEN evs[lo + 1].delta.partial_json
            ELSE "")
           \o FragmentsBetween(evs, lo + 1, hi, i)

IsToolCallPart(part) == part.type = "tool-call"

ToolCallsOf(parts) == SelectSeq(parts, IsToolCallPart)

\* the tool-call event the block opened by evs[p] owes at the stop evs[k]
ExpectedToolCall(evs, p, k, i) ==
  LET frags == FragmentsBetween(evs, p, k, i)
  IN [ type |-> "tool-call",
       toolCallId |-> evs[p].content_block.id,
       toolName |-> evs[p].content_block.name,
       input |-> IF frags = "" THEN "{}" ELSE frags ]

\* evs[k] is the first stop for index i after position p
IsNextStop(evs, p, k, i) ==
  /\ p < k
  /\ IsStop(evs[k], i)
  /\ \A m \in (p + 1)..(k - 1) : ~IsStop(evs[m], i)

\* no other start opens an accumulator at i strictly between p and k
NotReopened(evs, p, k, i) ==
  \A m \in (p + 1)..(k - 1) : ~OpensTool(evs[m], i)

\* delivered and emitted only grow, and every event is the latest one in the
\* state its delivery leads to: the properties of a stop are stated for the
\* latest event, k = Len(delivered), of every reachable state
LatestEvent == {Len(delivered)} \cap DOMAIN delivered

\* a stop for i that no open block awaits emits no tool-call
StaleStopsEmitNoToolCall ==
  \A i \in Indices, k \in LatestEvent :
    (/\ IsStop(delivered[k], i)
     /\ ~\E p \in 1..(k - 1) :
           OpensTool(delivered[p], i) /\ IsNextStop(delivered, p, k, i))
      => ToolCallsOf(emitted[k]) = << >>

(***************************************************************************)
(* C6 as stated: for every tool_use block opened at index i by a start     *)
(* carrying id and name, the next stop for i emits exactly one tool-call   *)
(* with that id and name and, as input, the concatenation of all fragments *)
(* received for i since the block was opened ("{}" if none); a further     *)
(* stop for i emits no second tool-call.                                   *)
(***************************************************************************)
C6_Original ==
  /\ \A i \in Indices, p \in DOMAIN delivered, k \in LatestEvent :
       (OpensTool(delivered[p], i) /\ IsNextStop(delivered, p, k, i))
         => ToolCallsOf(emitted[k]) = << ExpectedToolCall(delivered, p, k, i) >>
  /\ StaleStopsEmitNoToolCall

(***************************************************************************)
(* C6 as amended: the same for every tool_use block opened at index i that *)
(* no later start carrying id and name for the same index i replaces       *)
(* before the stop (such a start resets the accumulator of i).             *)
(***************************************************************************)
C6_ToolCallAssembly ==
  /\ \A i \in Indices, p \in DOMAIN delivered, k \in LatestEvent :
       (/\ OpensTool(delivered[p], i)
        /\ IsNextStop(delivered, p, k, i)
        /\ NotReopened(delivered, p, k, i))
         => ToolCallsOf(emitted[k]) = << ExpectedToolCall(delivered, p, k, i) >>
  /\ StaleStopsEmitNoToolCall

\* the block at index 0 receives two fragments and is stopped
C6_Witness ==
  /\ Len(delivered) = 4
  /\ OpensTool(delivered[1], 0)
  /\ IsJsonFragment(delivered[2], 0)
  /\ IsJsonFragment(delivered[3], 0)
  /\ IsStop(delivered[4], 0)
  /\ emitted[4] = << [type |-> "tool-call", toolCallId |-> "call_123",
                      toolName |-> "get_weather",
                      input |-> "{\"location\":\"NYC\"}"] >>

(***************************************************************************)
(* SpecText: a stream of text block events over all indices.               *)
(***************************************************************************)
TextEvents ==
  {[type |-> "message_start", input_tokens |-> 10]}
    \cup ContentBlockStartEvents({[type |-> "text"]})
    \cup TextDeltaEvents({"Hello", " world"})
    \cup ContentBlockStopEvents

NextText ==
  \/ \E event \in TextEvents : Deliver(event, MaxTextEvents)
  \/ Complete

SpecText == Init /\ [][NextText]_vars

\* a text_delta sub-event: it carries the delta text
IsTextDelta(ev, i) ==
  /\ ev.type = "content_block_delta"
  /\ ev.index = i
  /\ ev.delta.type = "text_delta"
  /\ Has(ev.delta, "text")

IsTextStart(ev, i) ==
  /\ ev.type = "content_block_start"
  /\ ev.index = i
  /\ ev.content_block.type = "text"

\* index i was opened as a text block by one of evs[1 .. k-1]
TextOpenedBefore(evs, k, i) ==
  \E p \in 1..(k - 1) : IsTextStart(evs[p], i) \/ IsTextDelta(evs[p], i)

HelloWorldEvents ==
  << [type |-> "message_start", input_tokens |-> 10],
     [type |-> "content_block_delta", index |-> 0,
      delta |-> [type |-> "text_delta", text |-> "Hello"]],
     [type |-> "content_block_delta", index |-> 0,
      delta |-> [type |-> "text_delta", text |-> " world"]],
     [type |-> "content_block_stop", index |-> 0] >>

HelloWorldOutput ==
  << [type |-> "stream-start", warnings |-> << >>],
     [type |-> "text-start", id |-> "text-0"],
     [type |-> "text-delta", id |-> "text-0", delta |-> "Hello"],
     [type |-> "text-delta", id |-> "text-0", delta |-> " world"],
     [type |-> "text-end", id |-> "text-0"],
     [type |-> "finish",
      finishReason |-> [unified |-> "other", raw |-> "other"],
      usage |-> [inputTokens |-> [total |-> 10],
                 outputTokens |-> [total |-> 0, text |-> 0]]] >>

MetaEvents ==
  MessageStartEvents
    \cup MessageDeltaEventsOver({"end_turn", "tool_use", "pause_turn"},
                                OutputTokenValues)
    \cup ContentBlockStartEvents({[type |-> "text"]})
    \cup TextDeltaEvents({"Hello"})
    \cup ContentBlockStopEvents

NextMeta ==
  \/ \E event \in MetaEvents : Deliver(event, MaxMetaEvents)
  \/ Complete

SpecMeta == Init /\ [][NextMeta]_vars

\* positions of the events of evs of the given type that carry field f
Carriers(evs, type, f) ==
  {k \in DOMAIN evs : evs[k].type = type /\ Has(evs[k], f)}

\* positions of the message_delta events whose stop_reason is present and
\* not null
ReasonCarriers(evs) ==
  {k \in Carriers(evs, "message_delta", "stop_reason") :
     evs[k].stop_reason # Null}

Max(S) == CHOOSE x \in S : \A y \in S : y <= x

\* field f of the last event of evs among the positions ks, or default
LastCarried(evs, ks, f, default) ==
  IF ks = {} THEN default ELSE evs[Max(ks)][f]

(***************************************************************************)
(* C8: the finish event's raw reason is the stop_reason of the last        *)
(* message_delta whose stop_reason was present and non-null, or "other" if *)
(* there was none (so a null or absent stop_reason never changes the       *)
(* stored reason), and its unified reason is convertStopReason of that raw *)
(* reason.                                                                 *)
(***************************************************************************)
C8_FinishReason ==
  LET raw == LastCarried(delivered, ReasonCarriers(delivered),
                         "stop_reason", "other")
  IN /\ state.finishReasonRaw = raw
     /\ source = "completed" =>
          /\ Last(out).finishReason.raw = raw
          /\ Last(out).finishReason.unified = convertStopReason(raw)
          /\ raw \in {"end_turn", "stop_sequence"}
               => Last(out).finishReason.unified = "stop"
          /\ raw = "tool_use" => Last(out).finishReason.unified = "tool-calls"
          /\ raw \in {"other", "pause_turn"}
               => Last(out).finishReason.unified = "other"

\* a reason, then a null stop_reason, then an absent one: the reason stays
C8_Witness ==
  /\ source = "completed"
  /\ Len(delivered) = 3
  /\ delivered[1].type = "message_delta"
  /\ Has(delivered[1], "stop_reason") /\ delivered[1].stop_reason = "tool_use"
  /\ delivered[2].type = "message_delta"
  /\ Has(delivered[2], "stop_reason") /\ delivered[2].stop_reason = Null
  /\ delivered[3].type = "message_delta"
  /\ ~Has(delivered[3], "stop_reason")
  /\ Last(out).finishReason = [unified |-> "tool-calls", raw |-> "tool_use"]

(***************************************************************************)
(* C9: in the finish event inputTokens.total is the input_tokens of the    *)
(* last message_start that carried one (0 if none), outputTokens.total is  *)
(* the output_tokens of the last message_delta that carried one (0 if      *)
(* none; overwritten, not summed), outputTokens.text equals                *)
(* outputTokens.total, and no other vendor event changes either counter.   *)
(***************************************************************************)
C9_FinishUsage ==
  LET inTok == LastCarried(delivered,
                           Carriers(delivered, "message_start", "input_tokens"),
                           "input_tokens", 0)
      outTok == LastCarried(delivered,
                            Carriers(delivered, "message_delta", "output_tokens"),
                            "output_tokens", 0)
  IN /\ state.inputTokens = inTok
     /\ state.outputTokens = outTok
     /\ source = "completed" =>
          /\ Last(out).usage.inputTokens.total = inTok
          /\ Last(out).usage.outputTokens.total = outTok
          /\ Last(out).usage.outputTokens.text = outTok

\* two message_delta events carrying output_tokens: the later value stands
C9_Witness ==
  /\ source = "completed"
  /\ Len(delivered) = 3
  /\ delivered[1] = [type |-> "message_start", input_tokens |-> 10]
  /\ delivered[2].type = "message_delta"
  /\ Has(delivered[2], "output_tokens") /\ delivered[2].output_tokens = 20
  /\ delivered[3].type = "message_delta"
  /\ Has(delivered[3], "output_tokens") /\ delivered[3].output_tokens = 7
  /\ Last(out).usage.inputTokens.total = 10
  /\ Last(out).usage.outputTokens = [total |-> 7, text |-> 7]

(***************************************************************************)
(* SpecPrompt: convertPrompt applied to a conversation of up to            *)
(* MaxMessages messages.                                                   *)
(***************************************************************************)
TextPart(text) == [type |-> "text", text |-> text]

PngDataUrl ==
  StringData(<< "d", "a", "t", "a", ":", "i", "m", "a", "g", "e", "/",
                "p", "n", "g", ";", "b", "a", "s", "e", "6", "4", ",",
                "i", "V", "B", "O" >>)

WeatherCallPart ==
  [type |-> "tool-call", toolCallId |-> "call_123", toolName |-> "get_weather",
   args |-> JsString("{\"location\":\"NYC\"}")]

WeatherResultPart ==
  [type |-> "tool-result", toolCallId |-> "call_123",
   result |-> JsObject(<< <<"temperature", JsNumber(22)>>,
                          <<"condition", JsString("sunny")>> >>)]

\* messages of every role and of every shape of content the merge step
\* meets: bare strings, one block, several blocks; the last one is rejected
MergeMessages ==
  { [role |-> "system", content |-> StringContent("Be brief")],
    [role |-> "user", content |-> StringContent("Hi")],
    [role |-> "user",
     content |-> ArrayContent(<< TextPart("Look"),
                                 [type |-> "file", data |-> PngDataUrl,
                                  mediaType |-> "image/png"] >>)],
    [role |-> "assistant", content |-> StringContent("Hello")],
    [role |-> "assistant",
     content |-> ArrayContent(<< TextPart("Calling"), WeatherCallPart >>)],
    [role |-> "tool", content |-> ArrayContent(<< WeatherResultPart >>)],
    [role |-> "tool", content |-> StringContent("raw result")],
    [role |-> "user", content |-> ArrayContent(<< WeatherCallPart >>)] }

Conversations(messages, n) == UNION {[1..k -> messages] : k \in 0..n}

InitPrompt ==
  /\ StreamInit
  /\ GenerateIdle
  /\ ProviderIdle
  /\ PairIdle
  /\ prompt \in Conversations(MergeMessages, MaxMessages)
  /\ converted = NotCalled

ConvertPrompt ==
  /\ converted = NotCalled
  /\ converted' = convertPrompt(prompt)
  /\ UNCHANGED <<prompt, streamVars, generateVars, providerVars, pairVars>>

NextPrompt == ConvertPrompt

SpecPrompt == InitPrompt /\ [][NextPrompt]_vars

\* convertPrompt was called and returned
PromptConverted == converted # NotCalled /\ ~converted.threw

Roles(messages) == [k \in DOMAIN messages |-> messages[k].role]

(***************************************************************************)
(* C4: for every conversation the messages returned by convertPrompt       *)
(* contain no two adjacent entries with the same role.                     *)
(***************************************************************************)
C4_NoAdjacentSameRole ==
  PromptConverted =>
    \A k \in 1..(Len(converted.value.messages) - 1) :
      converted.value.messages[k].role # converted.value.messages[k + 1].role

\* a system message between two user messages, then a tool message
C4_Witness ==
  /\ PromptConverted
  /\ Roles(prompt) = <<"user", "system", "user", "tool">>
  /\ Roles(converted.value.messages) = <<"user">>

\* the vendor messages before the merge step
PreMerge == convertMessages(prompt).value.messages

\* positions where a maximal run of same-role messages starts
RunStarts(pre) == {k \in DOMAIN pre : k = 1 \/ pre[k].role # pre[k - 1].role}

\* last position of the maximal run that starts at k
RunEnd(pre, k) ==
  CHOOSE j \in k..Len(pre) :
    /\ \A m \in k..j : pre[m].role = pre[k].role
    /\ j = Len(pre) \/ pre[j + 1].role # pre[k].role

\* the run that starts at k is the Rank-th run
Rank(pre, k) == Cardinality({j \in RunStarts(pre) : j <= k})

\* a content as a block sequence: a bare string is one text block
AsBlocks(content) ==
  IF IsStringContent(content)
    THEN << [type |-> "text", text |-> content.text] >>
    ELSE content.items

RECURSIVE ConcatBlocks(_, _, _)
ConcatBlocks(pre, k, j) ==
  IF k > j THEN << >>
  ELSE AsBlocks(pre[k].content) \o ConcatBlocks(pre, k + 1, j)

MergedRun(pre, k) ==
  [role |-> pre[k].role,
   content |-> ArrayContent(ConcatBlocks(pre, k, RunEnd(pre, k)))]

(***************************************************************************)
(* C5 as stated: for every maximal run of consecutive same-role vendor     *)
(* messages produced before the merge step, of any length, the merged      *)
(* message's content is the concatenation, in order, of each message's     *)
(* content normalized to a block sequence.                                 *)
(***************************************************************************)
C5_Original ==
  PromptConverted =>
    /\ Len(converted.value.messages) = Cardinality(RunStarts(PreMerge))
    /\ \A k \in RunStarts(PreMerge) :
         converted.value.messages[Rank(PreMerge, k)] = MergedRun(PreMerge, k)

(***************************************************************************)
(* C5 as amended: that holds for every maximal run of two or more          *)
(* messages; a run of one message is returned unchanged, so its bare       *)
(* string content stays a bare string.                                     *)
(***************************************************************************)
C5_MergeLossless ==
  PromptConverted =>
    /\ Len(converted.value.messages) = Cardinality(RunStarts(PreMerge))
    /\ \A k \in RunStarts(PreMerge) :
         converted.value.messages[Rank(PreMerge, k)] =
           IF RunEnd(PreMerge, k) > k
             THEN MergedRun(PreMerge, k)
             ELSE PreMerge[k]

\* a run of three user-role messages (a bare string, tool results, two
\* blocks) after an assistant message
C5_Witness ==
  /\ PromptConverted
  /\ Roles(prompt) = <<"assistant", "user", "tool", "user">>
  /\ IsStringContent(PreMerge[2].content)
  /\ Roles(converted.value.messages) = <<"assistant", "user">>
  /\ Len(converted.value.messages[2].content.items) = 4
  /\ IsStringContent(converted.value.messages[1].content)

(***************************************************************************)
(* SpecContent: convertPrompt on a user or assistant message of every      *)
(* shape of content (a bare string, no part, parts of every tag, files of  *)
(* every media type and payload), alone or after another message.          *)
(***************************************************************************)
MediaTypes ==
  { "image/jpeg", "image/png", "image/gif", "image/webp",
    "application/pdf", "image/bmp" }

FilePayloads ==
  { PngDataUrl,
    StringData(<< "i", "V", "B", "O" >>),
    BytesData(<< 72, 101, 108, 108, 111 >>) }

FileParts ==
  { [type |-> "file", data |-> d, mediaType |-> t] :
      d \in FilePayloads, t \in MediaTypes }

ToolCallParts ==
  { WeatherCallPart,
    [type |-> "tool-call", toolCallId |-> "call_456", toolName |-> "get_time",
     args |-> EmptyObject],
    [type |-> "tool-call", toolCallId |-> "call_789", toolName |-> "get_time",
     args |-> JsString("{bad")] }

\* parts of a tag that is neither text, file nor tool-call
OtherParts ==
  { [type |-> "reasoning", text |-> "Thinking"], WeatherResultPart }

ContentParts ==
  {TextPart("Look"), TextPart("")} \cup FileParts \cup ToolCallParts
    \cup OtherParts

ContentValues ==
  {StringContent("Hi")}
    \cup { ArrayContent(parts) :
             parts \in UNION {[1..n -> ContentParts] : n \in 0..MaxParts} }

ContentMessages ==
  { [role |-> r, content |-> c] : r \in {"user", "assistant"},
                                  c \in ContentValues }

\* the messages that may come before the message under study
Leads ==
  { << >>,
    << [role |-> "system", content |-> StringContent("Be brief")] >>,
    << [role |-> "user", content |-> StringContent("Hi")] >> }

ContentPrompts == { lead \o << m >> : lead \in Leads, m \in ContentMessages }

InitContent ==
  /\ StreamInit
  /\ GenerateIdle
  /\ ProviderIdle
  /\ PairIdle
  /\ prompt \in ContentPrompts
  /\ converted = NotCalled

NextContent == ConvertPrompt

SpecContent == InitContent /\ [][NextContent]_vars

\* the message under study and the vendor content made of it
StudiedMessage == Last(prompt)
StudiedContent == Last(PreMerge).content

\* the vendor block is the conversion of the part: same tag, same payload
Corresponds(part, block) ==
  CASE part.type = "text" ->
         block.type = "text" /\ block.text = part.text
    [] part.type = "file" ->
         block.type = "image" /\ block.source.media_type = part.mediaType
    [] part.type = "tool-call" ->
         /\ block.type = "tool_use"
         /\ block.id = part.toolCallId
         /\ block.name = part.toolName
    [] OTHER -> FALSE

(***************************************************************************)
(* C11: for every user or assistant message that converts without error,   *)
(* string content passes through unchanged; a part sequence of exactly one *)
(* text part becomes the bare text string; any other part sequence becomes *)
(* a block sequence of the same length, block k being the conversion of    *)
(* part k (before the merge step).                                         *)
(***************************************************************************)
C11_ContentSimplification ==
  PromptConverted =>
    IF IsStringContent(StudiedMessage.content)
      THEN StudiedContent = StudiedMessage.content
      ELSE LET parts == StudiedMessage.content.items
           IN IF Len(parts) = 1 /\ parts[1].type = "text"
                THEN StudiedContent = StringContent(parts[1].text)
                ELSE /\ ~IsStringContent(StudiedContent)
                     /\ Len(StudiedContent.items) = Len(parts)
                     /\ \A k \in DOMAIN parts :
                          Corresponds(parts[k], StudiedContent.items[k])

\* a single text part after a system message is returned as a bare string
C11_Witness ==
  /\ PromptConverted
  /\ Len(prompt) = 2
  /\ prompt[1].role = "system"
  /\ StudiedMessage = [role |-> "user",
                       content |-> ArrayContent(<< TextPart("Look") >>)]
  /\ converted.value.messages =
       << [role |-> "user", content |-> StringContent("Look")] >>


\* what the claims say of a part inside a message of the given role
RoleGated(part, role) ==
  \/ part.type = "file" /\ role = "assistant"
  \/ part.type = "tool-call" /\ role = "user"
  \/ part.type \notin {"text", "file", "tool-call"}

AllowedImageTypes == {"image/jpeg", "image/png", "image/gif", "image/webp"}

DisallowedFile(part, role) ==
  part.type = "file" /\ role = "user" /\ part.mediaType \notin AllowedImageTypes

StudiedParts ==
  IF IsStringContent(StudiedMessage.content)
    THEN << >>
    ELSE StudiedMessage.content.items

RejectedParts ==
  {k \in DOMAIN StudiedParts :
     \/ RoleGated(StudiedParts[k], StudiedMessage.role)
     \/ DisallowedFile(StudiedParts[k], StudiedMessage.role)}

\* the first part of the message that the converter must reject
FirstRejected == CHOOSE k \in RejectedParts : \A j \in RejectedParts : k <= j

PromptThrew == converted # NotCalled /\ converted.threw

IsConversionError(error) ==
  error.name = "AzureAnthropicError" /\ error.code = "conversion"

(***************************************************************************)
(* C12: a message holding a file part in an assistant message, a tool-call *)
(* part in a user message or a part of any other tag than text, file and   *)
(* tool-call makes convertPrompt throw a conversion-coded                  *)
(* AzureAnthropicError and return nothing; when such a part is the first   *)
(* one rejected, the message of the error names its tag and the role.      *)
(***************************************************************************)
C12_RoleGatedParts ==
  converted # NotCalled =>
    /\ (\E k \in DOMAIN StudiedParts :
          RoleGated(StudiedParts[k], StudiedMessage.role))
         => PromptThrew /\ IsConversionError(converted.error)
    /\ (RejectedParts # {}
          /\ RoleGated(StudiedParts[FirstRejected], StudiedMessage.role))
         => /\ PromptThrew
            /\ converted.error.message =
                 "Unsupported " \o StudiedMessage.role
                   \o " content part type: "
                   \o StudiedParts[FirstRejected].type

\* an assistant message with a text part and then a file part of a
\* supported media type, after a user message
C12_Witness ==
  /\ PromptThrew
  /\ Len(prompt) = 2
  /\ prompt[1].role = "user"
  /\ StudiedMessage.role = "assistant"
  /\ Len(StudiedParts) = 2
  /\ StudiedParts[1] = TextPart("Look")
  /\ StudiedParts[2].type = "file"
  /\ StudiedParts[2].mediaType = "image/png"
  /\ converted.error.message =
       "Unsupported assistant content part type: file"

(***************************************************************************)
(* C13: a file part of a user message converts to an image block exactly   *)
(* when its media type is image/jpeg, image/png, image/gif or image/webp,  *)
(* the block carrying that media type; any other media type makes          *)
(* convertPrompt throw a conversion error naming the rejected value,       *)
(* whatever the payload.                                                   *)
(***************************************************************************)
C13_MediaTypeAllowList ==
  (converted # NotCalled /\ StudiedMessage.role = "user") =>
    /\ RejectedParts = {} <=> PromptConverted
    /\ PromptConverted =>
         \A k \in DOMAIN StudiedParts :
           StudiedParts[k].type = "file" =>
             /\ StudiedParts[k].mediaType \in AllowedImageTypes
             /\ ~IsStringContent(StudiedContent)
             /\ StudiedContent.items[k].type = "image"
             /\ StudiedContent.items[k].source.media_type =
                  StudiedParts[k].mediaType
    /\ (\E k \in DOMAIN StudiedParts :
          DisallowedFile(StudiedParts[k], "user"))
         => PromptThrew /\ IsConversionError(converted.error)
    /\ (RejectedParts # {}
          /\ DisallowedFile(StudiedParts[FirstRejected], "user"))
         => /\ PromptThrew
            /\ converted.error.message =
                 "Unsupported image media type: "
                   \o StudiedParts[FirstRejected].mediaType
                   \o ". Supported: image/jpeg, image/png, image/gif, image/webp"

\* a text part and then a file of media type application/pdf whose payload
\* is a data URL of a PNG image
C13_Witness ==
  /\ PromptThrew
  /\ StudiedMessage.role = "user"
  /\ Len(StudiedParts) = 2
  /\ StudiedParts[1] = TextPart("Look")
  /\ StudiedParts[2] = [type |-> "file", data |-> PngDataUrl,
                        mediaType |-> "application/pdf"]
  /\ converted.error.message =
       "Unsupported image media type: application/pdf"
         \o ". Supported: image/jpeg, image/png, image/gif, image/webp"

(***************************************************************************)
(* C14: the conversion error raised for an unsupported media type carries  *)
(* the offending field name, field = "mediaType".                          *)
(***************************************************************************)
C14_ErrorCarriesField ==
  (/\ PromptThrew
   /\ RejectedParts # {}
   /\ DisallowedFile(StudiedParts[FirstRejected], StudiedMessage.role))
    => Has(converted.error, "field") /\ converted.error.field = "mediaType"


(***************************************************************************)
(* SpecSystem: convertPrompt on conversations with any number of system    *)
(* messages, between user and assistant messages.                          *)
(***************************************************************************)
\* system contents, each with the text the claim says is extracted from it
SystemCases ==
  << << StringContent("Be brief"), "Be brief" >>,
     << ArrayContent(<< TextPart("First instruction."),
                        TextPart("Second instruction.") >>),
        "First instruction.\nSecond instruction." >>,
     << ArrayContent(<< TextPart("Only text counts."),
                        [type |-> "file", data |-> PngDataUrl,
                         mediaType |-> "image/png"],
                        TextPart("Really.") >>),
        "Only text counts.\nReally." >>,
     << ArrayContent(<< [type |-> "file", data |-> PngDataUrl,
                         mediaType |-> "image/png"] >>),
        "" >> >>

SystemMessages ==
  { [role |-> "system", content |-> SystemCases[k][1]] :
      k \in DOMAIN SystemCases }
    \cup { [role |-> "user", content |-> StringContent("Hi")],
           [role |-> "assistant", content |-> StringContent("Hello")] }

InitSystem ==
  /\ StreamInit
  /\ GenerateIdle
  /\ ProviderIdle
  /\ PairIdle
  /\ prompt \in Conversations(SystemMessages, MaxSystemMessages)
  /\ converted = NotCalled

NextSystem == ConvertPrompt

SpecSystem == InitSystem /\ [][NextSystem]_vars

SystemPositions == {k \in DOMAIN prompt : prompt[k].role = "system"}

ClaimedSystemText(content) ==
  SystemCases[CHOOSE k \in DOMAIN SystemCases : SystemCases[k][1] = content][2]

IsNotSystem(message) == message.role # "system"

(***************************************************************************)
(* C15: the system value convertPrompt returns is the text extracted from  *)
(* the last system message (string content verbatim, or its text parts     *)
(* joined by a newline, other parts ignored); it is undefined when there   *)
(* is no system message; the returned messages hold no system message and  *)
(* are those of the conversation without its system messages.              *)
(***************************************************************************)
C15_SingleSystemSlot ==
  converted # NotCalled =>
    /\ PromptConverted
    /\ IF SystemPositions = {}
         THEN ~Has(converted.value, "system")
         ELSE /\ Has(converted.value, "system")
              /\ converted.value.system =
                   ClaimedSystemText(prompt[Max(SystemPositions)].content)
    /\ \A k \in DOMAIN converted.value.messages :
         converted.value.messages[k].role \in {"user", "assistant"}
    /\ converted.value.messages =
         convertPrompt(SelectSeq(prompt, IsNotSystem)).value.messages

\* two system messages around a user message: the second one wins
C15_Witness ==
  /\ PromptConverted
  /\ Len(prompt) = 3
  /\ prompt[1] = [role |-> "system", content |-> StringContent("Be brief")]
  /\ prompt[2].role = "user"
  /\ prompt[3].role = "system"
  /\ ~IsStringContent(prompt[3].content)
  /\ converted.value.system = "Only text counts.\nReally."
  /\ Len(converted.value.messages) = 1


(***************************************************************************)
(* SpecToolResult: convertPrompt on a tool message of up to MaxResultParts *)
(* parts, alone or after the assistant message that made the call.         *)
(***************************************************************************)
\* results, each with the string the claim says the block carries
ResultCases ==
  << << JsString("Success"), "Success" >>,
     << JsObject(<< <<"temp", JsNumber(72)>> >>), "{\"temp\":72}" >>,
     << [js |-> "null"], "null" >> >>

\* tool-result parts: with a result or none, with an error flag or none,
\* with a call id or an empty one
ToolResultParts ==
  { [type |-> "tool-result", toolCallId |-> id] @@ result @@ flag :
      id \in {"call_123", ""},
      result \in {NoFields}
                   \cup {[result |-> ResultCases[k][1]] :
                           k \in DOMAIN ResultCases},
      flag \in {NoFields, [isError |-> TRUE], [isError |-> FALSE]} }

ToolMessageParts == ToolResultParts \cup {TextPart("Done")}

ToolMessages ==
  { [role |-> "tool", content |-> ArrayContent(parts)] :
      parts \in UNION {[1..n -> ToolMessageParts] : n \in 0..MaxResultParts} }

ToolLeads ==
  { << >>,
    << [role |-> "assistant",
        content |-> ArrayContent(<< WeatherCallPart >>)] >> }

InitToolResult ==
  /\ StreamInit
  /\ GenerateIdle
  /\ ProviderIdle
  /\ PairIdle
  /\ prompt \in { lead \o << m >> : lead \in ToolLeads, m \in ToolMessages }
  /\ converted = NotCalled

NextToolResult == ConvertPrompt

SpecToolResult == InitToolResult /\ [][NextToolResult]_vars

ClaimedResultText(result) ==
  ResultCases[CHOOSE k \in DOMAIN ResultCases : ResultCases[k][1] = result][2]

HasCallId(part) == part.type = "tool-result" /\ part.toolCallId # ""

ModelId == "claude-sonnet-4-5"

ReasonOptions ==
  { [prompt |-> << [role |-> "user", content |-> StringContent("Hi")] >>],
    [prompt |-> << [role |-> "user",
                    content |-> ArrayContent(<< WeatherCallPart >>)] >>] }

ResponseReasons == StopReasons \cup {Null, "", "refusal"}

ReasonResponses ==
  { [id |-> "msg_1", model |-> ModelId, content |-> c, stop_reason |-> r,
     usage |-> u] :
      c \in { << [type |-> "text", text |-> "Sunny"] >>,
              << [type |-> "text", text |-> "Checking"],
                 [type |-> "tool_use", id |-> "call_123",
                  name |-> "get_weather",
                  input |-> JsObject(<< <<"location", JsString("NYC")>> >>)] >> },
      r \in ResponseReasons,
      u \in { [input_tokens |-> 10, output_tokens |-> 7],
              [input_tokens |-> 10, output_tokens |-> 7,
               cache_read_input_tokens |-> 3] } }

\* doGenerate or doStream up to the call of the transport; it rejects with
\* what buildRequestBody throws
CallModel(name, modelOptions, options, isStreaming) ==
  /\ call = "idle"
  /\ method' = name
  /\ callOptions' = [model |-> modelOptions, call |-> options]
  /\ \E body \in {buildRequestBody(ModelId, modelOptions, options,
                                   isStreaming)} :
       IF body.threw
         THEN /\ call' = "done"
              /\ generated' = body
              /\ UNCHANGED request
         ELSE /\ call' = "awaiting"
              /\ request' = body.value
              /\ UNCHANGED generated
  /\ UNCHANGED <<response, streamVars, promptVars, providerVars, pairVars>>

CallGenerate(modelOptions, options) ==
  CallModel("doGenerate", modelOptions, options, FALSE)

CallStream(modelOptions, options) ==
  CallModel("doStream", modelOptions, options, TRUE)

\* the transport resolves with a vendor response
Respond(resp) ==
  /\ call = "awaiting"
  /\ method = "doGenerate"
  /\ call' = "done"
  /\ response' = resp
  /\ generated' = Returned(generateResult(request, resp))
  /\ UNCHANGED <<request, method, callOptions, streamVars, promptVars,
                 providerVars, pairVars>>

\* the transport resolves with the vendor's event stream: doStream returns
\* the stream processStream makes of it, and the request body
StreamResolves ==
  /\ call = "awaiting"
  /\ method = "doStream"
  /\ call' = "done"
  /\ generated' = Returned([stream |-> "processStream(anthropicStream)",
                            request |-> [body |-> request]])
  /\ UNCHANGED <<request, response, method, callOptions, streamVars,
                 promptVars, providerVars, pairVars>>

\* the transport rejects
TransportFails(error) ==
  /\ call = "awaiting"
  /\ call' = "done"
  /\ generated' = Threw(error)
  /\ UNCHANGED <<request, response, method, callOptions, streamVars,
                 promptVars, providerVars, pairVars>>

NextReason ==
  \/ \E options \in ReasonOptions : CallGenerate(NoFields, options)
  \/ \E resp \in ReasonResponses : Respond(resp)
  \/ TransportFails("APIError")
  \/ \E event \in MessageDeltaEventsOver(StopReasons, {}) :
       Deliver(event, MaxReasonEvents)
  \/ Complete

SpecReason == Init /\ [][NextReason]_vars

\* the mapping of vendor stop reasons, case by case
IsMappedReason(reason, unified) ==
  /\ reason \in {"end_turn", "stop_sequence"} => unified = "stop"
  /\ reason = "max_tokens" => unified = "length"
  /\ reason = "tool_use" => unified = "tool-calls"
  /\ reason \notin {"end_turn", "stop_sequence", "max_tokens", "tool_use"}
       => unified = "other"

\* doGenerate returned a result
Generated == generated # NotCalled /\ ~generated.threw

(***************************************************************************)
(* C10: end_turn and stop_sequence map to stop, max_tokens to length,      *)
(* tool_use to tool-calls, null and every other string to other; the       *)
(* finish event of a stream and the result of doGenerate both carry the    *)
(* unified reason this mapping gives for their raw reason.                 *)
(***************************************************************************)
C10_StopReasonMapping ==
  /\ Generated =>
       IsMappedReason(response.stop_reason,
                      generated.value.finishReason.unified)
  /\ source = "completed" =>
       IsMappedReason(Last(out).finishReason.raw,
                      Last(out).finishReason.unified)

\* doGenerate mapped tool_use and the stream mapped max_tokens
C10_Witness ==
  /\ Generated
  /\ response.stop_reason = "tool_use"
  /\ generated.value.finishReason = [unified |-> "tool-calls", raw |-> "tool_use"]
  /\ source = "completed"
  /\ Last(out).finishReason = [unified |-> "length", raw |-> "max_tokens"]

(***************************************************************************)
(* SpecRequest: doGenerate and doStream of a model created with or without *)
(* a model-level maxOutputTokens, called with every combination of the     *)
(* optional call options, up to the answer of the transport.               *)
(***************************************************************************)
Optional(fields) == {NoFields} \cup fields

RequestPrompts ==
  { << [role |-> "user", content |-> StringContent("Hi")] >>,
    << [role |-> "system", content |-> StringContent("Be brief")],
       [role |-> "user", content |-> StringContent("Hi")] >> }

WeatherTool ==
  [type |-> "function", name |-> "get_weather",
   description |-> "Get the weather", inputSchema |-> [type |-> "object"]]

BashTool == [type |-> "provider", id |-> "anthropic.bash", name |-> "bash"]

RequestOptions ==
  { [prompt |-> p] @@ tokens @@ temperature @@ topP @@ topK @@ stops
      @@ tools @@ choice :
      p \in RequestPrompts,
      tokens \in Optional({[maxOutputTokens |-> 1024]}),
      temperature \in Optional({[temperature |-> 0]}),
      topP \in Optional({[topP |-> 1]}),
      topK \in Optional({[topK |-> 40]}),
      stops \in Optional({[stopSequences |-> << >>],
                          [stopSequences |-> << "END" >>]}),
      tools \in Optional({[tools |-> << >>],
                          [tools |-> << WeatherTool >>],
                          [tools |-> << BashTool >>]}),
      choice \in Optional({[toolChoice |-> [type |-> "auto"]],
                           [toolChoice |-> [type |-> "tool",
                                            toolName |-> "get_weather"]]}) }

ModelOptions == Optional({[maxOutputTokens |-> 8192]})

SunnyResponse ==
  [id |-> "msg_1", model |-> ModelId,
   content |-> << [type |-> "text", text |-> "Sunny"] >>,
   stop_reason |-> "end_turn",
   usage |-> [input_tokens |-> 10, output_tokens |-> 7]]

NextRequest ==
  \/ \E modelOptions \in ModelOptions, options \in RequestOptions :
       CallGenerate(modelOptions, options)
  \/ \E modelOptions \in ModelOptions, options \in RequestOptions :
       CallStream(modelOptions, options)
  \/ Respond(SunnyResponse)
  \/ StreamResolves
  \/ TransportFails("APIError")

SpecRequest == Init /\ [][NextRequest]_vars

\* buildRequestBody has returned the body of the request
RequestBuilt == request # NotCalled

\* the call supplied a system message
SystemSupplied ==
  \E k \in DOMAIN callOptions.call.prompt :
    callOptions.call.prompt[k].role = "system"

\* the call supplied at least one tool the vendor can be given
FunctionToolSupplied ==
  /\ Has(callOptions.call, "tools")
  /\ \E k \in DOMAIN callOptions.call.tools :
       callOptions.call.tools[k].type = "function"

(***************************************************************************)
(* C17: in the request body each optional field (system, stream,           *)
(* temperature, top_p, top_k, stop_sequences, tools, tool_choice) is       *)
(* present exactly when the corresponding input was supplied, and never    *)
(* as an empty placeholder: an empty stop-sequence list gives no           *)
(* stop_sequences field, an empty tool list gives no tools field.          *)
(***************************************************************************)
C17_OptionalFields ==
  RequestBuilt =>
    /\ Has(request, "stream") <=> method = "doStream"
    /\ Has(request, "system") <=> SystemSupplied
    /\ Has(request, "temperature") <=> Has(callOptions.call, "temperature")
    /\ Has(request, "top_p") <=> Has(callOptions.call, "topP")
    /\ Has(request, "top_k") <=> Has(callOptions.call, "topK")
    /\ Has(request, "tool_choice") <=> Has(callOptions.call, "toolChoice")
    /\ Has(request, "tools") <=> FunctionToolSupplied
    /\ Has(request, "tools") => request.tools # << >>
    /\ Has(request, "stop_sequences") <=>
         /\ Has(callOptions.call, "stopSequences")
         /\ callOptions.call.stopSequences # << >>
    /\ Has(request, "stop_sequences") => request.stop_sequences # << >>

(***************************************************************************)
(* C18: the request body always carries max_tokens: the per-call           *)
(* maxOutputTokens if supplied, else the model-level maxOutputTokens if    *)
(* supplied, else 4096; stream is present, and true, exactly in the body   *)
(* of a doStream request.                                                  *)
(***************************************************************************)
C18_MaxTokensAndStream ==
  RequestBuilt =>
    /\ Has(request, "max_tokens")
    /\ request.max_tokens =
         IF Has(callOptions.call, "maxOutputTokens") THEN 1024
         ELSE IF Has(callOptions.model, "maxOutputTokens") THEN 8192
         ELSE 4096
    /\ method = "doStream" => Has(request, "stream") /\ request.stream = TRUE
    /\ method = "doGenerate" => ~Has(request, "stream")

\* doStream of a model created with maxOutputTokens 8192, called with
\* maxOutputTokens 1024, has returned its stream
C18_Witness ==
  /\ call = "done"
  /\ method = "doStream"
  /\ callOptions.model = [maxOutputTokens |-> 8192]
  /\ Has(callOptions.call, "maxOutputTokens")
  /\ ~generated.threw
  /\ generated.value.request.body.max_tokens = 1024
  /\ generated.value.request.body.stream = TRUE

(***************************************************************************)
(* provider.ts: createAzureAnthropic and the provider it returns.  A       *)
(* client is the configuration AnthropicFoundry was constructed with; the  *)
(* provider holds the position of its client in clients.                   *)
(***************************************************************************)
\* new AzureAnthropicLanguageModel(modelId, client, options)
AzureAnthropicLanguageModel(modelId, client, options) ==
  [modelId |-> modelId, client |-> client, options |-> options]

\* createModel(modelId, options = {}): args holds modelId and, when the
\* caller passed them, options
createModel(client, args) ==
  AzureAnthropicLanguageModel(args.modelId, client,
    IF Has(args, "options") THEN args.options ELSE NoFields)

CreateAzureAnthropicApiKeyFirst(options) ==
  /\ provider = NotCalled
  /\ providerOptions' = options
  /\ IF ~TruthyField(options, "apiKey")
       THEN /\ provider' =
                 Threw(AzureAnthropicError("validation", "apiKey is required"))
            /\ UNCHANGED clients
       ELSE IF ~TruthyField(options, "baseURL")
         THEN /\ provider' =
                   Threw(AzureAnthropicError("validation",
                                             "baseURL is required"))
              /\ UNCHANGED clients
         ELSE /\ clients' =
                   Append(clients,
                     [apiKey |-> options.apiKey, baseURL |-> options.baseURL]
                       @@ (IF Has(options, "headers")
                             THEN [defaultHeaders |-> options.headers]
                             ELSE NoFields))
              /\ provider' = Returned([client |-> Len(clients) + 1])
  /\ UNCHANGED <<models, streamVars, promptVars, generateVars, pairVars>>

CreateAzureAnthropic(options) ==
  /\ provider = NotCalled
  /\ providerOptions' = options
  /\ IF ~TruthyField(options, "baseURL")
       THEN /\ provider' =
                 Threw(AzureAnthropicError("validation", "baseURL is required"))
            /\ UNCHANGED clients
       ELSE IF ~TruthyField(options, "apiKey")
         THEN /\ provider' =
                   Threw(AzureAnthropicError("validation",
                                             "apiKey is required"))
              /\ UNCHANGED clients
         ELSE /\ clients' =
                   Append(clients,
                     [apiKey |-> options.apiKey, baseURL |-> options.baseURL]
                       @@ (IF Has(options, "headers")
                             THEN [defaultHeaders |-> options.headers]
                             ELSE NoFields))
              /\ provider' = Returned([client |-> Len(clients) + 1])
  /\ UNCHANGED <<models, streamVars, promptVars, generateVars, pairVars>>

\* provider(modelId, options?) or provider.languageModel(modelId, options?):
\* both are createModel; models records the route, the arguments and the
\* model returned
CreateModelVia(route, args) ==
  /\ provider # NotCalled
  /\ ~provider.threw
  /\ Len(models) < MaxModels
  /\ models' = Append(models,
                 [via |-> route, args |-> args,
                  model |-> createModel(provider.value.client, args)])
  /\ UNCHANGED <<providerOptions, provider, clients, streamVars, promptVars,
                 generateVars, pairVars>>

ProviderCall(args) == CreateModelVia("provider", args)

LanguageModel(args) == CreateModelVia("languageModel", args)

(***************************************************************************)
(* SpecProvider: one call of createAzureAnthropic with every combination   *)
(* of missing, empty and given options, then up to MaxModels models.       *)
(***************************************************************************)
ProviderOptions ==
  { url @@ key @@ headers :
      url \in Optional({[baseURL |-> ""],
                        [baseURL |-> "https://test.azure.com/anthropic"]}),
      key \in Optional({[apiKey |-> ""], [apiKey |-> "test-api-key"]}),
      headers \in Optional({[headers |-> [XCustomHeader |-> "value"]]}) }

ModelIds ==
  { "claude-sonnet-4-5-20251001", "claude-opus-4-5-20251001",
    "custom-deployment-name" }

ModelArgs ==
  { [modelId |-> id] @@ options :
      id \in ModelIds,
      options \in Optional({[options |-> [maxOutputTokens |-> 8192]]}) }

NextProvider ==
  \/ \E options \in ProviderOptions : CreateAzureAnthropic(options)
  \/ \E args \in ModelArgs : ProviderCall(args)
  \/ \E args \in ModelArgs : LanguageModel(args)

SpecProvider == Init /\ [][NextProvider]_vars

ValidationError(message) ==
  [name |-> "AzureAnthropicError", code |-> "validation", message |-> message]

Missing(options, f) == ~Has(options, f) \/ options[f] = ""

(***************************************************************************)
(* C19: createAzureAnthropic throws a validation-coded AzureAnthropicError *)
(* "baseURL is required" when baseURL is missing or empty, and else        *)
(* "apiKey is required" when apiKey is missing or empty; then no client is *)
(* constructed and no provider returned.  With both present it constructs  *)
(* one client from them and returns a provider whose direct call and       *)
(* languageModel method both create a model with the model id given.       *)
(***************************************************************************)
C19_ProviderValidation ==
  provider # NotCalled =>
    /\ Missing(providerOptions, "baseURL") =>
         /\ provider = Threw(ValidationError("baseURL is required"))
         /\ clients = << >>
         /\ models = << >>
    /\ (~Missing(providerOptions, "baseURL")
          /\ Missing(providerOptions, "apiKey")) =>
         /\ provider = Threw(ValidationError("apiKey is required"))
         /\ clients = << >>
         /\ models = << >>
    /\ (~Missing(providerOptions, "baseURL")
          /\ ~Missing(providerOptions, "apiKey")) =>
         /\ ~provider.threw
         /\ Len(clients) = 1
         /\ clients[1].baseURL = providerOptions.baseURL
         /\ clients[1].apiKey = providerOptions.apiKey
         /\ \A k \in DOMAIN models :
              /\ models[k].model.modelId = models[k].args.modelId
              /\ models[k].model.client = 1

\* a provider made with both options created one model by a direct call and
\* one by languageModel
C19_Witness ==
  /\ provider # NotCalled
  /\ ~provider.threw
  /\ Len(models) = 2
  /\ models[1].via = "provider"
  /\ models[1].model.modelId = "claude-sonnet-4-5-20251001"
  /\ models[2].via = "languageModel"
  /\ models[2].model.modelId = "claude-opus-4-5-20251001"

(***************************************************************************)
(* SpecPace: the returned stream and its reader.  The loop of processStream *)
(* runs inside start(controller): the underlying source has no pull, and   *)
(* the loop never looks at controller.desiredSize, so an iteration is      *)
(* enabled whatever the reader has taken.                                  *)
(***************************************************************************)
PaceEvents ==
  { [type |-> "message_start", input_tokens |-> 10],
    [type |-> "content_block_delta", index |-> 0,
     delta |-> [type |-> "text_delta", text |-> "Hello"]],
    [type |-> "content_block_stop", index |-> 0],
    [type |-> "message_delta", stop_reason |-> "end_turn"] }

\* the consumer reads the next enqueued part of the returned stream
Read ==
  /\ consumed < Len(out)
  /\ consumed' = consumed + 1
  /\ UNCHANGED <<state, hasEmittedStart, out, closed, delivered, emitted,
                 source, fault>>
  /\ UNCHANGED <<promptVars, generateVars, providerVars, pairVars>>

NextPace ==
  \/ \E event \in PaceEvents : Deliver(event, MaxPaceEvents)
  \/ Complete
  \/ Read

SpecPace == Init /\ [][NextPace]_vars

(***************************************************************************)
(* C20: the stream processor is consumer-paced: it takes the next vendor   *)
(* event from the source only in response to consumer demand, that is only *)
(* when no unified event is enqueued that the consumer has not read, so    *)
(* with a consumer that stopped reading the events consumed and the parts  *)
(* buffered do not grow with the source.                                   *)
(***************************************************************************)
C20_ConsumerPaced ==
  [][Len(delivered') > Len(delivered) => consumed = Len(out)]_vars

(***************************************************************************)
(* Stale events, judged against the stream state they arrive in.           *)
(***************************************************************************)
\* a content_block_stop for an index that is neither an opened text block
\* nor an open tool-call accumulator
IsStaleStop(ev, s) ==
  /\ ev.type = "content_block_stop"
  /\ ev.index \notin s.textBlockIds
  /\ ev.index \notin DOMAIN s.toolCalls

\* an input_json_delta for an index with no open accumulator
IsStaleJsonDelta(ev, s) ==
  /\ ev.type = "content_block_delta"
  /\ ev.delta.type = "input_json_delta"
  /\ ev.index \notin DOMAIN s.toolCalls

\* the step delivers the vendor event ev
Delivers(ev) == delivered' = Append(delivered, ev)

(***************************************************************************)
(* C21: stale or out-of-order vendor events are ignored without failure: a *)
(* content_block_stop for an index that is neither an opened text block    *)
(* nor an open accumulator, and an input_json_delta for an index with no   *)
(* open accumulator, emit nothing and change no state, and no error event  *)
(* is produced; an error event is in the output only if the source raised. *)
(***************************************************************************)
C21_StaleEventsIgnored ==
  [][ /\ \A ev \in Events :
           (Delivers(ev) /\ (IsStaleStop(ev, state) \/ IsStaleJsonDelta(ev, state)))
             => /\ state' = state
                /\ emitted' = Append(emitted, << >>)
                /\ out' = out \o (IF hasEmittedStart THEN << >>
                                  ELSE << StreamStartPart >>)
                /\ source' = "open"
      /\ Count(out', "error") > 0 => source' = "raised" ]_vars

\* a stop for index 1 arrived while only index 0 had an open accumulator
C21_Witness ==
  /\ Len(delivered) = 2
  /\ OpensTool(delivered[1], 0)
  /\ IsStop(delivered[2], 1)
  /\ emitted[2] = << >>
  /\ DOMAIN state.toolCalls = {0}
  /\ state.textBlockIds = {}
  /\ Count(out, "error") = 0

(***************************************************************************)
(* SpecBlock: a stream of block events in any order (text and tool_use     *)
(* starts, a tool_use start without id, text and argument fragments,       *)
(* stops) over all indices, which then completes.                          *)
(***************************************************************************)
BlockEvents ==
  ContentBlockStartEvents(
      { [type |-> "text"],
        [type |-> "tool_use", id |-> "call_123", name |-> "get_weather"],
        [type |-> "tool_use", name |-> "get_weather"] })
    \cup TextDeltaEvents({"Hello"})
    \cup JsonDeltaEvents({"{\"loc"})
    \cup ContentBlockStopEvents

NextBlock ==
  \/ \E event \in BlockEvents : Deliver(event, MaxBlockEvents)
  \/ Complete

SpecBlock == Init /\ [][NextBlock]_vars

(***************************************************************************)
(* C22: handling one content_block_stop event fires only one branch: in    *)
(* any reachable stream state it emits at most one unified event, either a *)
(* text-end or a tool-call, never both for the same stop event.            *)
(***************************************************************************)
C22_StopFiresOneBranch ==
  \A k \in LatestEvent :
    delivered[k].type = "content_block_stop" => Len(emitted[k]) <= 1

\* the parts of the vendor events, concatenated in vendor-event order
RECURSIVE Flatten(_)
Flatten(seqs) ==
  IF seqs = << >> THEN << >> ELSE Head(seqs) \o Flatten(Tail(seqs))

\* the terminal event of the output, once the source has ended
TerminalParts ==
  CASE source = "completed" -> << FinishPart(state) >>
    [] source = "raised"    -> << ErrorPart(fault) >>
    [] OTHER                -> << >>

(***************************************************************************)
(* C23: unified events are emitted in the order of the vendor events that  *)
(* triggered them: the output is stream-start, then the parts produced for *)
(* each vendor event concatenated in vendor-event order, then the terminal *)
(* event; and within one text_delta the text-start precedes the            *)
(* text-delta.                                                             *)
(***************************************************************************)
C23_VendorOrder ==
  /\ out = (IF delivered = << >> THEN << >> ELSE << StreamStartPart >>)
             \o Flatten(emitted) \o TerminalParts
  /\ Len(emitted) = Len(delivered)
  /\ \A k \in DOMAIN delivered, i \in Indices :
       (IsTextDelta(delivered[k], i) /\ Len(emitted[k]) = 2)
         => /\ emitted[k][1].type = "text-start"
            /\ emitted[k][2].type = "text-delta"

\* the text-start and text-delta of the first vendor event stand before those
\* of the second; stream-start is first and finish last
C23_Witness ==
  /\ Len(delivered) = 2
  /\ IsTextDelta(delivered[1], 0)
  /\ IsTextDelta(delivered[2], 1)
  /\ source = "completed"
  /\ Len(out) = 6
  /\ out[1].type = "stream-start"
  /\ out[2] = [type |-> "text-start", id |-> "text-0"]
  /\ out[3].type = "text-delta" /\ out[3].id = "text-0"
  /\ out[4] = [type |-> "text-start", id |-> "text-1"]
  /\ out[5].type = "text-delta" /\ out[5].id = "text-1"
  /\ out[6].type = "finish"

(***************************************************************************)
(* SpecChoice: doGenerate and doStream called with every kind of tool      *)
(* choice, with and without tools.                                         *)
(***************************************************************************)
ToolChoices ==
  { [type |-> "auto"], [type |-> "none"], [type |-> "required"],
    [type |-> "tool", toolName |-> "get_weather"],
    [type |-> "tool", toolName |-> "get_time"] }

ChoiceOptions ==
  { [prompt |-> p] @@ tools @@ choice :
      p \in RequestPrompts,
      tools \in Optional({[tools |-> << WeatherTool >>]}),
      choice \in Optional({[toolChoice |-> c] : c \in ToolChoices}) }

NextChoice ==
  \/ \E options \in ChoiceOptions : CallGenerate(NoFields, options)
  \/ \E options \in ChoiceOptions : CallStream(NoFields, options)
  \/ Respond(SunnyResponse)
  \/ StreamResolves
  \/ TransportFails("APIError")

SpecChoice == Init /\ [][NextChoice]_vars

\* the call supplied a tool choice
ChoiceSupplied == RequestBuilt /\ Has(callOptions.call, "toolChoice")

(***************************************************************************)
(* C24: convertToolChoice is total over the tool-choice kinds: auto maps   *)
(* to auto, none to auto, required to any, and a specific tool choice to   *)
(* type tool with name equal to the requested tool name; a name field is   *)
(* present only in the specific-tool case.                                 *)
(***************************************************************************)
C24_ToolChoice ==
  ChoiceSupplied =>
    /\ Has(request, "tool_choice")
    /\ callOptions.call.toolChoice.type = "auto"
         => request.tool_choice.type = "auto"
    /\ callOptions.call.toolChoice.type = "none"
         => request.tool_choice.type = "auto"
    /\ callOptions.call.toolChoice.type = "required"
         => request.tool_choice.type = "any"
    /\ callOptions.call.toolChoice.type = "tool"
         => /\ request.tool_choice.type = "tool"
            /\ Has(request.tool_choice, "name")
            /\ request.tool_choice.name = callOptions.call.toolChoice.toolName
    /\ Has(request.tool_choice, "name")
         <=> callOptions.call.toolChoice.type = "tool"
    /\ DOMAIN request.tool_choice \subseteq {"type", "name"}

\* doGenerate was called with the choice none and answered
C24_Witness ==
  /\ ChoiceSupplied
  /\ call = "done"
  /\ method = "doGenerate"
  /\ callOptions.call.toolChoice = [type |-> "none"]
  /\ ~generated.threw
  /\ generated.value.request.body.tool_choice = [type |-> "auto"]

\* a content_block_start for a tool_use block at index i
IsToolStart(ev, i) ==
  /\ ev.type = "content_block_start"
  /\ ev.index = i
  /\ ev.content_block.type = "tool_use"

\* an accumulator is open at index i when evs[k] arrives: a start carrying
\* id and name opened it and no stop for i came since
OpenBefore(evs, k, i) ==
  \E p \in 1..(k - 1) :
    /\ OpensTool(evs[p], i)
    /\ \A m \in (p + 1)..(k - 1) : ~IsStop(evs[m], i)

\* a tool_use start emits nothing; one carrying id and name leaves an
\* accumulator with these and empty argument text at its index
ToolStartOpensAccumulator ==
  \A k \in LatestEvent, i \in Indices :
    IsToolStart(delivered[k], i) =>
      /\ emitted[k] = << >>
      /\ OpensTool(delivered[k], i) =>
           /\ i \in DOMAIN state.toolCalls
           /\ state.toolCalls[i] =
                [id |-> delivered[k].content_block.id,
                 name |-> delivered[k].content_block.name,
                 argsText |-> ""]
      /\ ~OpensTool(delivered[k], i) =>
           (i \in DOMAIN state.toolCalls <=> OpenBefore(delivered, k, i))

\* evs[p] is a tool_use start for i lacking id or name, and no start opens
\* an accumulator at i between it and evs[k], an event for i
FollowsUnopenedStart(evs, p, k, i) ==
  /\ p < k
  /\ IsToolStart(evs[p], i)
  /\ ~OpensTool(evs[p], i)
  /\ NotReopened(evs, p, k, i)
  /\ IsStop(evs[k], i) \/ IsJsonFragment(evs[k], i)

(***************************************************************************)
(* C25 as stated: a content_block_start for a tool_use block never emits a *)
(* unified event by itself; it opens an accumulator with empty argument    *)
(* text only when both id and name are present and non-empty, and when     *)
(* either is missing no accumulator is opened, so the later                *)
(* input_json_delta and content_block_stop events for that index produce   *)
(* no tool-call event at all.                                              *)
(***************************************************************************)
C25_Original ==
  /\ ToolStartOpensAccumulator
  /\ \A k \in LatestEvent, p \in DOMAIN delivered, i \in Indices :
       FollowsUnopenedStart(delivered, p, k, i)
         => ToolCallsOf(emitted[k]) = << >>

(***************************************************************************)
(* C25 as amended: the same, the last part for a start that arrives when   *)
(* no accumulator is open at its index; an accumulator already open at the *)
(* index is left as it is by a start lacking id or name.                   *)
(***************************************************************************)
C25_ToolStart ==
  /\ ToolStartOpensAccumulator
  /\ \A k \in LatestEvent, p \in DOMAIN delivered, i \in Indices :
       (FollowsUnopenedStart(delivered, p, k, i)
          /\ ~OpenBefore(delivered, p, i))
         => ToolCallsOf(emitted[k]) = << >>

\* a start without id, a fragment and a stop for index 0: no tool-call
C25_Witness ==
  /\ Len(delivered) = 3
  /\ IsToolStart(delivered[1], 0) /\ ~OpensTool(delivered[1], 0)
  /\ IsJsonFragment(delivered[2], 0)
  /\ IsStop(delivered[3], 0)
  /\ emitted = << << >>, << >>, << >> >>
  /\ state.toolCalls = << >>

(***************************************************************************)
(* SpecFrame: block events of all indices in any order, mixed with         *)
(* message_start and message_delta events.                                 *)
(***************************************************************************)
FrameEvents ==
  BlockEvents
    \cup { [type |-> "message_start", input_tokens |-> 10],
           [type |-> "message_delta", stop_reason |-> "end_turn",
            output_tokens |-> 7] }

NextFrame ==
  \/ \E event \in FrameEvents : Deliver(event, MaxFrameEvents)
  \/ Complete

SpecFrame == Init /\ [][NextFrame]_vars

IsBlockEvent(ev) ==
  ev.type \in {"content_block_start", "content_block_delta",
               "content_block_stop"}

IsMessageEvent(ev) == ev.type \in {"message_start", "message_delta"}

\* the step leaves the opened-text status and the accumulator of index j
SameAt(j) ==
  /\ j \in state'.textBlockIds <=> j \in state.textBlockIds
  /\ j \in DOMAIN state'.toolCalls <=> j \in DOMAIN state.toolCalls
  /\ j \in DOMAIN state.toolCalls
       => state'.toolCalls[j] = state.toolCalls[j]

(***************************************************************************)
(* C26: content-block indices are tracked independently: handling a        *)
(* content_block_start, content_block_delta or content_block_stop for      *)
(* index i leaves the opened-text status and the accumulator of every      *)
(* other index j unchanged and leaves the token counters and the stop      *)
(* reason unchanged; message_start and message_delta change no per-index   *)
(* state and emit no unified event.                                        *)
(***************************************************************************)
C26_IndependentIndices ==
  [][ \A ev \in FrameEvents :
        Delivers(ev) =>
          /\ IsBlockEvent(ev) =>
               /\ \A j \in Indices \ {ev.index} : SameAt(j)
               /\ state'.inputTokens = state.inputTokens
               /\ state'.outputTokens = state.outputTokens
               /\ state'.finishReasonRaw = state.finishReasonRaw
          /\ IsMessageEvent(ev) =>
               /\ \A j \in Indices : SameAt(j)
               /\ emitted' = Append(emitted, << >>) ]_vars

\* index 0 holds an accumulator with a fragment, index 1 was opened as text
\* by the last event
C26_Witness ==
  /\ Len(delivered) = 3
  /\ OpensTool(delivered[1], 0)
  /\ IsJsonFragment(delivered[2], 0)
  /\ IsTextDelta(delivered[3], 1)
  /\ state.toolCalls[0] = [id |-> "call_123", name |-> "get_weather",
                           argsText |-> "{\"loc"]
  /\ state.textBlockIds = {1}

(***************************************************************************)
(* SpecPair: two calls of processStream, each draining its own source; the *)
(* iterations of the two loops interleave in any order.                    *)
(***************************************************************************)
PairEvents ==
  { [type |-> "content_block_start", index |-> 0,
     content_block |-> [type |-> "tool_use", id |-> "call_123",
                        name |-> "get_weather"]],
    [type |-> "content_block_delta", index |-> 0,
     delta |-> [type |-> "input_json_delta", partial_json |-> "{\"loc"]],
    [type |-> "content_block_delta", index |-> 0,
     delta |-> [type |-> "text_delta", text |-> "Hello"]],
    [type |-> "content_block_stop", index |-> 0],
    [type |-> "message_delta", stop_reason |-> "end_turn",
     output_tokens |-> 7] }

LoopOfSharedState(stream, event) ==
  LET r == processStreamEvent(event, streams["first"].state)
      start == IF stream.hasEmittedStart THEN << >> ELSE << StreamStartPart >>
  IN [ state |-> r.state,
       hasEmittedStart |-> TRUE,
       out |-> stream.out \o start \o r.parts,
       closed |-> stream.closed,
       delivered |-> Append(stream.delivered, event),
       source |-> stream.source ]

\* one iteration of the loop of a call: it works on the StreamState and
\* hasEmittedStart of its own call
LoopOf(stream, event) ==
  LET r == processStreamEvent(event, stream.state)
      start == IF stream.hasEmittedStart THEN << >> ELSE << StreamStartPart >>
  IN [ state |-> r.state,
       hasEmittedStart |-> TRUE,
       out |-> stream.out \o start \o r.parts,
       closed |-> stream.closed,
       delivered |-> Append(stream.delivered, event),
       source |-> stream.source ]

\* the source of the call id yields one more event
DeliverTo(id, event) ==
  /\ streams[id].source = "open"
  /\ Len(streams[id].delivered) < MaxPairEvents
  /\ streams' = [streams EXCEPT ![id] = LoopOf(@, event)]
  /\ UNCHANGED <<streamVars, promptVars, generateVars, providerVars>>

\* the source of the call id completes
CompleteOf(id) ==
  /\ streams[id].source = "open"
  /\ streams' = [streams EXCEPT
                   ![id].source = "completed",
                   ![id].out = Append(@, FinishPart(streams[id].state)),
                   ![id].closed = TRUE]
  /\ UNCHANGED <<streamVars, promptVars, generateVars, providerVars>>

NextPair ==
  \/ \E id \in StreamIds, event \in PairEvents : DeliverTo(id, event)
  \/ \E id \in StreamIds : CompleteOf(id)

SpecPair == Init /\ [][NextPair]_vars

\* the StreamState a call running alone holds after the events evs
RECURSIVE StateFrom(_, _)
StateFrom(evs, s) ==
  IF evs = << >>
    THEN s
    ELSE StateFrom(Tail(evs), processStreamEvent(Head(evs), s).state)

\* the whole output of a call running alone on a source that yields evs and,
\* if completed, completes
AloneOutput(evs, completed) ==
  FaultFreeOutput(evs)
    \o (IF completed
          THEN << FinishPart(StateFrom(evs, InitialStreamState)) >>
          ELSE << >>)

(***************************************************************************)
(* C27: two stream-processing operations running with their vendor events  *)
(* arbitrarily interleaved never share state: each one's output sequence   *)
(* is exactly the output it would produce running alone on its own source, *)
(* for every interleaving.                                                 *)
(***************************************************************************)
C27_NoSharedState ==
  \A id \in StreamIds :
    streams[id].out =
      AloneOutput(streams[id].delivered, streams[id].source = "completed")

\* the first call opened a tool block at index 0; the second, given only the
\* fragment and the stop, emitted no tool-call
C27_Witness ==
  /\ streams["first"].delivered = << [type |-> "content_block_start", index |-> 0,
        content_block |-> [type |-> "tool_use", id |-> "call_123",
                           name |-> "get_weather"]] >>
  /\ Len(streams["second"].delivered) = 2
  /\ IsJsonFragment(streams["second"].delivered[1], 0)
  /\ IsStop(streams["second"].delivered[2], 0)
  /\ streams["second"].source = "completed"
  /\ Len(streams["second"].out) = 2
  /\ streams["second"].out[1] = StreamStartPart
  /\ streams["second"].out[2].type = "finish"

\* a text-start, text-delta or text-end event (type) with the id
IsTextEvent(part, type, id) == part.type = type /\ part.id = id

TextIds == {TextId(i) : i \in Indices}

(***************************************************************************)
(* C28: in every output of processStream, for every vendor event sequence  *)
(* (also with missing, duplicated or out-of-order block events), each      *)
(* text-delta and each text-end with id text-i is preceded somewhere       *)
(* earlier in the output by a text-start with the same id text-i.          *)
(***************************************************************************)
C28_TextStartPrecedes ==
  \A k \in DOMAIN out, id \in TextIds :
    (IsTextEvent(out[k], "text-delta", id) \/ IsTextEvent(out[k], "text-end", id))
      => \E m \in 1..(k - 1) : IsTextEvent(out[m], "text-start", id)

\* a text_delta with no content_block_start before it, then a stop and a
\* second stop: text-start stands before the text-delta and the text-ends
C28_Witness ==
  /\ Len(delivered) = 3
  /\ IsTextDelta(delivered[1], 1)
  /\ IsStop(delivered[2], 1)
  /\ IsStop(delivered[3], 1)
  /\ Len(out) >= 4
  /\ IsTextEvent(out[2], "text-start", "text-1")
  /\ IsTextEvent(out[3], "text-delta", "text-1")
  /\ IsTextEvent(out[4], "text-end", "text-1")

(***************************************************************************)
(* C29: once a text-end has been emitted for id text-i, no further event   *)
(* for that id is emitted without a new text-start: a second               *)
(* content_block_stop for index i emits no second text-end, and a          *)
(* text_delta arriving for index i after its stop does not produce a       *)
(* text-delta on the already closed id.                                    *)
(***************************************************************************)
C29_TextEndCloses ==
  \A k \in DOMAIN out, m \in DOMAIN out, id \in TextIds :
    (/\ k < m
     /\ IsTextEvent(out[k], "text-end", id)
     /\ IsTextEvent(out[m], "text-delta", id) \/ IsTextEvent(out[m], "text-end", id))
      => \E j \in (k + 1)..(m - 1) : IsTextEvent(out[j], "text-start", id)

\* evs[p] opens index i as a text block
OpensText(ev, i) == IsTextStart(ev, i) \/ IsTextDelta(ev, i)

\* the block evs[p] opened at i gets its own stop: the next stop for i comes
\* before any other start opens an accumulator at i
HasOwnStop(evs, p, i) ==
  \E k \in DOMAIN evs :
    IsNextStop(evs, p, k, i) /\ NotReopened(evs, p, k, i)

\* positions of the starts that open an accumulator
ToolOpenings(evs) ==
  {p \in DOMAIN evs : \E i \in Indices : OpensTool(evs[p], i)}

\* those whose block gets its own stop
StoppedToolOpenings(evs) ==
  {p \in DOMAIN evs : \E i \in Indices :
     OpensTool(evs[p], i) /\ HasOwnStop(evs, p, i)}

(***************************************************************************)
(* C30 as stated: when the source completes normally, every block opened   *)
(* during the stream has been closed before the finish event: each         *)
(* text-start is followed by a text-end for the same id, and each tool_use *)
(* accumulator that was opened has produced its tool-call event, so no     *)
(* accumulated tool-call arguments are discarded at the end of the stream  *)
(* or by a second content_block_start on the same index.                   *)
(***************************************************************************)
C30_Original ==
  source = "completed" =>
    /\ \A k \in DOMAIN out, id \in TextIds :
         IsTextEvent(out[k], "text-start", id)
           => \E m \in (k + 1)..(Len(out) - 1) :
                IsTextEvent(out[m], "text-end", id)
    /\ Count(out, "tool-call") = Cardinality(ToolOpenings(delivered))

(***************************************************************************)
(* C30 as amended: a block is closed only by a content_block_stop for its  *)
(* index, nothing is flushed at completion.  When the source completes     *)
(* normally, a text-end for id text-i is in the output, before finish,     *)
(* exactly if a stop for i came after i was opened as text; every          *)
(* accumulator whose next stop came before any other start carrying id and *)
(* name for its index has produced its tool-call at that stop, and these   *)
(* are all the tool-call events: an accumulator still open at completion,  *)
(* or replaced by such a start, produces none.                             *)
(***************************************************************************)
C30_BlocksClosedByStop ==
  source = "completed" =>
    /\ Last(out).type = "finish"
    /\ \A i \in Indices :
         (\E m \in 1..(Len(out) - 1) : IsTextEvent(out[m], "text-end", TextId(i)))
           <=> \E p \in DOMAIN delivered, k \in DOMAIN delivered :
                 p < k /\ OpensText(delivered[p], i) /\ IsStop(delivered[k], i)
    /\ \A p \in DOMAIN delivered, k \in DOMAIN delivered, i \in Indices :
         (/\ OpensTool(delivered[p], i)
          /\ IsNextStop(delivered, p, k, i)
          /\ NotReopened(delivered, p, k, i))
           => ToolCallsOf(emitted[k]) = << ExpectedToolCall(delivered, p, k, i) >>
    /\ Count(out, "tool-call") = Cardinality(StoppedToolOpenings(delivered))

\* the tool block of index 1 was stopped and produced its tool-call; the
\* text block of index 0 got no stop and no text-end before finish
C30_Witness ==
  /\ source = "completed"
  /\ Len(delivered) = 3
  /\ IsTextDelta(delivered[1], 0)
  /\ OpensTool(delivered[2], 1)
  /\ IsStop(delivered[3], 1)
  /\ Len(out) = 5
  /\ IsTextEvent(out[2], "text-start", "text-0")
  /\ out[4].type = "tool-call"
  /\ out[5].type = "finish"

====
